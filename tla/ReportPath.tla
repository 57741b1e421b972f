----------------------------- MODULE ReportPath -----------------------------
(***************************************************************************)
(* The way of a HID report from the pollers to the PC: merge mux (host.py) *)
(* -> injection engine (injection.py) -> relay (relay.py) -> the clone's   *)
(* interrupt-IN endpoints.  A step is one cycle of the usb clock.          *)
(*                                                                         *)
(* A byte is <<k, n, i>>: byte i of report n of source k.  source[k] is    *)
(* the report poller k has buffered and how far it is read.                *)
(***************************************************************************)
EXTENDS ReportMergeMux, ReportRelay, ReportBuffer

CONSTANTS
    ReportLengths,       \* lengths of the reports each source sends
    MaxDetaches,         \* bound: losses of the device
    MaxFlushes           \* bound: PC session resets

VARIABLES
    source,              \* per source: report number, read index, buffer_full
    served,              \* per slot: the last byte served in this PC session
    newest,              \* per slot: the last native report served to its end
    detaches, flushes

vars == <<muxVars, relayVars, bufferVars, source, served, newest, detaches, flushes>>

ASSUME PathAssumption ==
    /\ Slots \subseteq Sources /\ Endpoints = Sources
    /\ ReportLengths \in Seq(1..MaxReportBytes) /\ BufferBytes = MaxReportBytes
    /\ MaxDetaches \in Nat /\ MaxFlushes \in Nat

NothingServed == [byte |-> <<0, 0, 0>>, last |-> TRUE]

Init ==
    /\ MuxInit /\ RelayInit /\ BufferInit
    /\ source = [k \in Sources |-> [n |-> 0, index |-> 0, full |-> FALSE]]
    /\ served = [s \in Slots |-> NothingServed] /\ newest = [s \in Slots |-> 0]
    /\ detaches = 0 /\ flushes = 0

-----------------------------------------------------------------------------
\* Wires.
full == [k \in Sources |-> source[k].full]
offered == report_valid(full)
first == source[sel].index = 0
last == offered /\ source[sel].index = ReportLengths[source[sel].n] - 1
byte == <<sel, source[sel].n, source[sel].index + 1>>
engine_ready == buffer_ready(offered, first)

\* A poller that has read the next report to its end fills its buffer.
Fillable == {k \in Sources : ~source[k].full /\ source[k].n < Len(ReportLengths)}

\* The buffer of a poller is given up: its report is read, or lost.
Emptied(s) == [n |-> s.n, index |-> 0, full |-> FALSE]

\* A poller fills its buffer, or a byte of it is taken.
Streamed(k, filled) ==
    LET s == source[k]
    IN  IF k \in filled THEN [n |-> s.n + 1, index |-> 0, full |-> TRUE]
        ELSE IF ~(s.full /\ source_ready(k, engine_ready)) THEN s
        ELSE IF s.index = ReportLengths[s.n] - 1
             THEN Emptied(s)
             ELSE [s EXCEPT !.index = @ + 1]

\* Without its device a poller clears its buffer.
SourceCycle(filled, detach) ==
    source' = [k \in Sources |->
        IF detach THEN Emptied(source[k]) ELSE Streamed(k, filled)]

MuxCycle == MuxStep(full, engine_ready, last)

\* The engine: in CAPTURE a native report comes before a stationary one.
EngineTakes ==
    \/ offered /\ first /\ CaptureFirst(sel, byte, last)
    \/ /\ ~(offered /\ first)
       /\ CaptureNothing \/ \E k \in Endpoints : LoadTemplate(k)
    \/ CaptureRest(offered, byte, last)

EngineQuiet == EngineTakes \/ MutateWait \/ MutateEnd
               \/ OutputAbort \/ CacheWait \/ CacheEnd

EngineCycle(emits) == IF emits THEN OutputByte ELSE EngineQuiet

RelayCycle(emits, flush, ready) ==
    RelayStep(emits, captured_endpoint,
              [byte |-> buffer[output_index], last |-> output_last], flush, ready)

\* The clone's streams: a byte served is the head of its queue.
ServedCycle(flush, ready) ==
    LET number(s) == Head(queue[s]).byte[2]
        ends(s) == Head(queue[s]).last /\ number(s) # 0
    IN  /\ served' = [s \in Slots |->
              IF flush THEN NothingServed
              ELSE IF dequeue(s, ready) THEN Head(queue[s]) ELSE served[s]]
        /\ newest' = [s \in Slots |->
              IF dequeue(s, ready) /\ ends(s) THEN number(s) ELSE newest[s]]

Cycle(filled, detach, emits, flush, ready) ==
    /\ SourceCycle(filled, detach)
    /\ MuxCycle
    /\ EngineCycle(emits)
    /\ RelayCycle(emits, flush, ready)
    /\ ServedCycle(flush, ready)
    /\ detaches' = IF detach THEN detaches + 1 ELSE detaches
    /\ flushes' = IF flush THEN flushes + 1 ELSE flushes

Next ==
    \E filled \in SUBSET Fillable, detach, emits, flush \in BOOLEAN,
       ready \in SUBSET {s \in Slots : head_valid[s]} :
        /\ detach => detaches < MaxDetaches
        /\ flush => flushes < MaxFlushes
        /\ emits => istate = "OUTPUT"
        /\ Cycle(filled, detach, emits, flush, ready)

Spec == Init /\ [][Next]_vars

\* The clock runs: a step that changes something is taken infinitely often,
\* unless there is infinitely often none.  This is WF_vars(Next), in a form
\* that is cheap to check.
ClockRuns == []<>~ENABLED <<Next>>_vars \/ []<><<TRUE>>_vars

\* No state of the engine between capture and output, nor the copy of a
\* template, lasts for ever.
FairSpec ==
    /\ Spec
    /\ ClockRuns
    /\ []<>(istate # "MUTATE") /\ []<>(istate # "CACHE_COPY")
-----------------------------------------------------------------------------
Bytes == {Zero} \cup (Nat \X Nat \X Nat)
Entries == [byte : Bytes \ {Zero}, last : BOOLEAN]

\* Admission decided at a report's first byte holds to its last: no queue is
\* written past its depth, though the relay holds nobody off.
NoOverflow == \A s \in Slots : Len(queue[s]) <= FifoDepth

TypeOK ==
    /\ sel \in Sources /\ locked \in BOOLEAN
    /\ queue \in [Slots -> Seq(Entries)]
    /\ head_valid \in [Slots -> BOOLEAN]
    /\ in_report \in [Buckets -> BOOLEAN] /\ accepting \in [Buckets -> BOOLEAN]
    /\ istate \in BufferStates
    /\ buffer \in [Addresses -> Bytes]
    /\ input_index \in Addresses /\ output_index \in Addresses
    /\ report_length \in 0..(BufferBytes + 1)
    /\ captured_endpoint \in Endpoints
    /\ stationary \in BOOLEAN /\ mapped \in BOOLEAN /\ output_started \in BOOLEAN
    /\ template \in [Endpoints -> 0..(BufferBytes + 1)]
    /\ source \in [Sources -> [n : 0..Len(ReportLengths), index : Nat, full : BOOLEAN]]
    /\ detaches \in 0..MaxDetaches /\ flushes \in 0..MaxFlushes
    /\ NoOverflow

\* What follows what on a stream: the next byte of a report, or the first of
\* another.
Follows(s, a, b) ==
    /\ b.byte # Zero /\ b.byte[1] = s
    /\ IF a.last THEN b.byte[3] = 1
       ELSE b.byte[2] = a.byte[2] /\ b.byte[3] = a.byte[3] + 1
    /\ b.byte[2] # 0 => b.last = (b.byte[3] = ReportLengths[b.byte[2]])

\* The device's reports keep their order, and none is there twice.
InOrder(s, i) ==
    LET number(j) == queue[s][j].byte[2]
        ended(j) == queue[s][j].last
    IN  number(i) # 0 =>
          /\ newest[s] < number(i)
          /\ \A j \in 1..(i - 1) :
                number(j) < number(i) \/ (number(j) = number(i) /\ ~ended(j))

\* Each endpoint of the clone serves whole reports of its own source, in order
\* and none twice, whatever is injected between them, dropped or flushed: a new
\* session starts with the first byte of a report.  (Until the device is lost:
\* see EachReportTaken.)
WholeReports ==
    detaches = 0 => \A s \in Slots :
        LET stream == <<served[s]>> \o queue[s]
        IN  \A i \in 1..Len(queue[s]) :
               Follows(s, stream[i], stream[i + 1]) /\ InOrder(s, i)

\* No report waits for ever in a poller's buffer, and with it its endpoint's
\* next poll: not for an endless stream of others, nor for one lost half-way.
EachReportTaken == \A k \in Sources : source[k].full ~> ~source[k].full
=============================================================================
