-------------------------- MODULE ReportPathProofs --------------------------
(***************************************************************************)
(* The endpoints of the clone serve whole reports, in order and none       *)
(* twice, until the device is lost; and no queue of the relay overflows as *)
(* long as no report is longer than the buffer.  For any number of         *)
(* sources, slots and reports, any lengths and depths.                     *)
(***************************************************************************)
EXTENDS ReportPath, TLAPS, SequenceTheorems

\* The registers' types, and what they say of each other whatever the devices
\* do.
SourceType == [n : 0..Len(ReportLengths), index : Nat, full : BOOLEAN]

MuxTyped == sel \in Sources /\ locked \in BOOLEAN

RelayTyped ==
    /\ queue \in [Slots -> Seq(Entries)]
    /\ head_valid \in [Slots -> BOOLEAN]
    /\ in_report \in [Buckets -> BOOLEAN] /\ accepting \in [Buckets -> BOOLEAN]

BufferTyped ==
    /\ istate \in BufferStates
    /\ buffer \in [Addresses -> Bytes]
    /\ input_index \in Addresses /\ output_index \in Addresses
    /\ report_length \in 0..(BufferBytes + 1)
    /\ captured_endpoint \in Endpoints
    /\ stationary \in BOOLEAN /\ mapped \in BOOLEAN /\ output_started \in BOOLEAN
    /\ template \in [Endpoints -> 0..(BufferBytes + 1)]

ServedTyped == served \in [Slots -> Entries] /\ newest \in [Slots -> Nat]

Typed ==
    /\ MuxTyped /\ RelayTyped /\ BufferTyped /\ ServedTyped
    /\ source \in [Sources -> SourceType]
    /\ detaches \in 0..MaxDetaches /\ flushes \in 0..MaxFlushes

\* A poller's buffer holds the rest of a report, or nothing.
SourcesSound ==
    \A k \in Sources :
        IF source[k].full
        THEN source[k].n # 0 /\ source[k].index < ReportLengths[source[k].n]
        ELSE source[k].index = 0

Holding == istate \in {"MUTATE", "OUTPUT", "CACHE_COPY"}
EngineSound ==
    /\ istate # "OUTPUT" => output_index = 0 /\ ~output_started
    /\ istate \in {"CAPTURE", "CAPTURE_REST"} => ~stationary
    /\ istate = "CAPTURE" => input_index = 0
    /\ istate = "OUTPUT" => output_index < report_length
    /\ Holding => report_length # 0 /\ \A a \in Addresses : a < report_length => buffer[a] # Zero
    /\ istate = "CAPTURE_REST" => \A a \in 0..input_index : buffer[a] # Zero

HeadsSound == \A s \in Slots : head_valid[s] => queue[s] # <<>>

TInv == Typed /\ SourcesSound /\ EngineSound /\ HeadsSound

-----------------------------------------------------------------------------
\* No report is longer than the buffer, spliced or not.
Unspliced == report_length <= BufferBytes

\* A report is under way in the relay exactly while the engine sends it.
InStep ==
    /\ istate = "OUTPUT" => output_index < report_length /\ (output_started <=> output_index # 0)
    /\ \A b \in Buckets :
         in_report[b] <=> istate = "OUTPUT" /\ output_started /\ b = Bucket(captured_endpoint)

\* An admitted report has room to its end.
Room ==
    \A s \in Slots :
        in_report[s] /\ accepting[s] => Len(queue[s]) + MaxReportBytes <= FifoDepth + output_index

-----------------------------------------------------------------------------
\* A report that is captured is still offered by its source, from the next
\* byte on.
Capturing ==
    /\ locked => source[sel].full
    /\ \A k \in Sources : source[k].index # 0 => istate = "CAPTURE_REST" /\ k = sel
    /\ istate = "CAPTURE_REST" =>
         /\ locked /\ sel = captured_endpoint
         /\ source[sel].index = input_index + 1
         /\ \A a \in 0..input_index : buffer[a] = <<sel, source[sel].n, a + 1>>

\* The engine holds one report, complete: a native one, or an injected one.
Number == buffer[0][2]
Held ==
    /\ Holding =>
         /\ report_length <= BufferBytes
         /\ \A a \in 0..(report_length - 1) : buffer[a] = <<captured_endpoint, Number, a + 1>>
         /\ IF stationary THEN Number = 0
            ELSE Number \in 1..Len(ReportLengths) /\ report_length = ReportLengths[Number]
    /\ ~Holding => report_length = 0
    /\ \A k \in Endpoints : template[k] <= BufferBytes

\* The numbers of reports: those served and queued are older than what the
\* engine holds, and that is older than what the source offers.
Older(s, n) ==
    /\ newest[s] < n
    /\ \A i \in 1..Len(queue[s]) :
         queue[s][i].byte[2] < n \/ (queue[s][i].byte[2] = n /\ ~queue[s][i].last)
Ages ==
    \A s \in Slots :
        /\ source[s].full =>
             newest[s] < source[s].n /\ \A i \in 1..Len(queue[s]) : queue[s][i].byte[2] < source[s].n
        /\ newest[s] <= source[s].n
        /\ \A i \in 1..Len(queue[s]) : queue[s][i].byte[2] <= source[s].n
        /\ istate \in {"MUTATE", "OUTPUT"} /\ s = captured_endpoint /\ ~stationary =>
             /\ Number <= source[s].n /\ (source[s].full => Number < source[s].n)
             /\ Older(s, Number)

\* The end of a stream: inside the report that is under way, or of a report.
Newest(s) == IF queue[s] = <<>> THEN served[s] ELSE queue[s][Len(queue[s])]
Ends ==
    \A s \in Slots :
        IF in_report[s] /\ accepting[s]
        THEN ~Newest(s).last /\ Newest(s).byte = buffer[output_index - 1]
        ELSE Newest(s).last = TRUE

\* Every entry of a queue follows what is before it.
Chained ==
    \A s \in Slots : \A i \in 1..Len(queue[s]) :
        /\ Follows(s, IF i = 1 THEN served[s] ELSE queue[s][i - 1], queue[s][i])
        /\ InOrder(s, i)

Whole == Unspliced /\ InStep /\ Capturing /\ Held /\ Ages /\ Ends /\ Chained

-----------------------------------------------------------------------------
\* The constants.
LEMMA Lengths ==
    /\ BufferBytes \in Nat \ {0, 1} /\ MaxReportBytes = BufferBytes /\ FifoDepth \in Nat
    /\ FifoDepth >= BufferBytes
    /\ Slots \subseteq Sources /\ Endpoints = Sources /\ Unmatched \notin Slots
    /\ Len(ReportLengths) \in Nat
    /\ \A n \in 1..Len(ReportLengths) : ReportLengths[n] \in 1..BufferBytes
  BY PathAssumption, BufferAssumption, RelayAssumption

\* Indices have the width of the buffer's address.
LEMMA Width ==
    /\ Addresses = 0..(BufferBytes - 1) /\ 0 \in Addresses
    /\ \A x \in Addresses :
         /\ x \in Nat /\ x + 1 \in Nat /\ (x + 1) % BufferBytes \in Addresses
         /\ x + 1 < BufferBytes => (x + 1) % BufferBytes = x + 1
         /\ x + 1 = BufferBytes => (x + 1) % BufferBytes = 0
  <1>1. ASSUME NEW M \in Nat, M > 1
        PROVE  \A x \in 0..(M - 1) :
                 /\ (x + 1) % M \in 0..(M - 1)
                 /\ x + 1 < M => (x + 1) % M = x + 1
                 /\ x + 1 = M => (x + 1) % M = 0
    BY <1>1
  <1>2. BufferBytes \in Nat /\ BufferBytes > 1
    BY Lengths
  <1>3. Addresses = 0..(BufferBytes - 1)
    BY DEF Addresses
  <1>4. \A x \in 0..(BufferBytes - 1) :
          /\ (x + 1) % BufferBytes \in 0..(BufferBytes - 1)
          /\ x + 1 < BufferBytes => (x + 1) % BufferBytes = x + 1
          /\ x + 1 = BufferBytes => (x + 1) % BufferBytes = 0
    BY <1>1, <1>2
  <1> QED
    BY <1>2, <1>3, <1>4

\* What goes over the path is a byte of a report.
LEMMA ByteTypes ==
    /\ Zero \in Bytes
    /\ \A k \in Sources, n \in Nat, i \in Nat : <<k, n, i>> \in Bytes \ {Zero}
    /\ NothingServed \in Entries
    /\ Empty \in [Addresses -> Bytes]
  <1>1. Sources \subseteq Nat
    BY SourceAssumption DEF Sources
  <1>2. \A k \in Nat, n \in Nat, i \in Nat : <<k, n, i>> \in Bytes /\ <<k, n, i>> # Zero
    BY DEF Bytes, Zero
  <1>3. Zero \in Bytes
    BY DEF Bytes
  <1>4. NothingServed \in Entries
    <2>1. <<0, 0, 0>> \in Bytes \ {Zero}
      BY <1>2
    <2> QED
      BY <2>1 DEF NothingServed, Entries
  <1> QED
    BY <1>1, <1>2, <1>3, <1>4 DEF Empty

\* What a poller's buffer becomes.
LEMMA SourceRecord ==
    \A n \in 0..Len(ReportLengths), i \in Nat, f \in BOOLEAN :
        [n |-> n, index |-> i, full |-> f] \in SourceType
  BY Zenon DEF SourceType

LEMMA SourceUpdate ==
  ASSUME NEW s \in SourceType
  PROVE  /\ s.n \in 0..Len(ReportLengths) /\ s.index \in Nat /\ s.full \in BOOLEAN
         /\ Emptied(s) \in SourceType /\ Emptied(s).full = FALSE /\ Emptied(s).index = 0
         /\ Emptied(s).n = s.n
         /\ [s EXCEPT !.index = s.index + 1] = [n |-> s.n, index |-> s.index + 1, full |-> s.full]
  <1>1. s.n \in 0..Len(ReportLengths) /\ s.index \in Nat /\ s.full \in BOOLEAN
    BY DEF SourceType
  <1>2. [s EXCEPT !.index = s.index + 1] = [n |-> s.n, index |-> s.index + 1, full |-> s.full]
    BY DEF SourceType
  <1>3. [n |-> s.n, index |-> 0, full |-> FALSE] \in SourceType
    <2>1. FALSE \in BOOLEAN /\ 0 \in Nat
      OBVIOUS
    <2> QED
      BY <1>1, <2>1, SourceRecord
  <1>4. Emptied(s).full = FALSE /\ Emptied(s).index = 0 /\ Emptied(s).n = s.n
    BY DEF Emptied
  <1> QED
    BY <1>1, <1>2, <1>3, <1>4 DEF Emptied

\* The pollers' buffers keep their types.
LEMMA SourceCycleType ==
  ASSUME TInv, NEW filled \in SUBSET Fillable, NEW detach \in BOOLEAN, SourceCycle(filled, detach)
  PROVE  source' \in [Sources -> SourceType] /\ SourcesSound'
  <1>1. \A k \in Sources : source'[k] \in SourceType /\
          IF source'[k].full
          THEN source'[k].n # 0 /\ source'[k].index < ReportLengths[source'[k].n]
          ELSE source'[k].index = 0
    <2> TAKE k \in Sources
    <2>1. source[k] \in SourceType
      BY DEF TInv, Typed
    <2>2. IF source[k].full
          THEN source[k].n # 0 /\ source[k].index < ReportLengths[source[k].n]
          ELSE source[k].index = 0
      BY DEF TInv, SourcesSound
    <2>7. /\ source[k].n \in 0..Len(ReportLengths) /\ source[k].index \in Nat
          /\ source[k].full \in BOOLEAN /\ Len(ReportLengths) \in Nat
      BY <2>1, SourceUpdate, Lengths
    <2>3. CASE source'[k] = Emptied(source[k])
      BY <2>1, <2>3, SourceUpdate
    <2>4. CASE ~detach /\ k \in filled
      <3>1. source'[k] = [n |-> source[k].n + 1, index |-> 0, full |-> TRUE]
        BY <2>4 DEF SourceCycle, Streamed
      <3>2. source[k].n + 1 \in 1..Len(ReportLengths)
        <4>1. source[k].n < Len(ReportLengths)
          BY <2>4 DEF Fillable
        <4> QED
          BY <2>7, <4>1
      <3>3. ReportLengths[source[k].n + 1] > 0
        BY <3>2, Lengths
      <3>4. source'[k] \in SourceType
        <4>1. source[k].n + 1 \in 0..Len(ReportLengths) /\ 0 \in Nat /\ TRUE \in BOOLEAN
          BY <2>7, <3>2
        <4> QED
          BY <3>1, <4>1, SourceRecord, Zenon
      <3> QED
        BY <3>1, <3>2, <3>3, <3>4
    <2>5. CASE /\ source[k].full /\ source[k].index # ReportLengths[source[k].n] - 1
               /\ source'[k] = [source[k] EXCEPT !.index = source[k].index + 1]
      <3>1. source[k].n \in 1..Len(ReportLengths) /\ source[k].index \in Nat
        BY <2>2, <2>5, <2>7
      <3>2. ReportLengths[source[k].n] \in Nat
        BY <3>1, Lengths
      <3>3. source[k].index < ReportLengths[source[k].n]
        BY <2>2, <2>5
      <3>4. source[k].index + 1 < ReportLengths[source[k].n] /\ source[k].index + 1 \in Nat
        BY <2>5, <3>1, <3>2, <3>3
      <3>5. source'[k] = [n |-> source[k].n, index |-> source[k].index + 1, full |-> source[k].full]
        BY <2>1, <2>5, SourceUpdate
      <3>6. source'[k] \in SourceType
        BY <2>7, <3>4, <3>5, SourceRecord, Zenon
      <3> QED
        BY <2>5, <3>1, <3>4, <3>5, <3>6
    <2>6. \/ source'[k] = Emptied(source[k])
          \/ ~detach /\ k \in filled
          \/ source'[k] = source[k]
          \/ /\ source[k].full /\ source[k].index # ReportLengths[source[k].n] - 1
             /\ source'[k] = [source[k] EXCEPT !.index = source[k].index + 1]
      BY DEF SourceCycle, Streamed
    <2> QED
      BY <2>1, <2>2, <2>3, <2>4, <2>5, <2>6
  <1>2. source' = [k \in Sources |-> source'[k]]
    BY DEF SourceCycle
  <1> QED
    BY <1>1, <1>2 DEF SourcesSound

\* The multiplexer keeps its types.
LEMMA MuxType ==
  ASSUME TInv, MuxCycle
  PROVE  MuxTyped'
  <1>1. sel \in 0..LastSource /\ LastSource \in Nat /\ NextSource(sel) \in Sources
    BY SourceAssumption DEF TInv, Typed, MuxTyped, NextSource, Sources
  <1> QED
    BY <1>1 DEF MuxCycle, MuxStep, muxVars, TInv, Typed, MuxTyped, Sources

\* A byte offered is a byte of a report.
LEMMA ByteType ==
  ASSUME TInv
  PROVE  byte \in Bytes \ {Zero}
  <1>1. sel \in Sources /\ source[sel] \in SourceType
    BY DEF TInv, Typed, MuxTyped
  <1>2. source[sel].n \in Nat /\ source[sel].index + 1 \in Nat
    <2>1. source[sel].n \in 0..Len(ReportLengths) /\ source[sel].index \in Nat
      BY <1>1, SourceUpdate
    <2> QED
      BY <2>1, Lengths
  <1> QED
    BY <1>1, <1>2, ByteTypes DEF byte

\* The engine's registers keep their types, in each of its steps.
LEMMA EngineType ==
  ASSUME TInv, NEW emits \in BOOLEAN, EngineCycle(emits)
  PROVE  BufferTyped' /\ EngineSound'
  <1> USE DEF Holding
  <1>1. BufferTyped /\ EngineSound /\ sel \in Endpoints /\ byte \in Bytes \ {Zero}
    BY Lengths, ByteType DEF TInv, Typed, MuxTyped
  <1>2. Addresses = 0..(BufferBytes - 1) /\ BufferBytes \in Nat \ {0, 1} /\ 0 \in Addresses
    BY Lengths, Width DEF Addresses
  <1>3. CASE UNCHANGED bufferVars
    BY <1>1, <1>3 DEF BufferTyped, EngineSound, bufferVars
  <1>4. CASE CaptureFirst(sel, byte, last)
    BY <1>1, <1>2, <1>4 DEF BufferTyped, EngineSound, CaptureFirst, BufferStates
  <1>5. ASSUME NEW k \in Endpoints, LoadTemplate(k)
        PROVE  BufferTyped' /\ EngineSound'
    <2>1. \A a \in Addresses : Injected(k, a + 1) \in Bytes \ {Zero} /\ Zero \in Bytes
      BY <1>2, ByteTypes, Lengths DEF Injected
    <2>2. buffer' \in [Addresses -> Bytes]
      BY <2>1, <1>5 DEF LoadTemplate
    <2>3. template[k] \in 0..(BufferBytes + 1) /\ template[k] # 0 /\ report_length' = template[k]
      BY <1>1, <1>5 DEF BufferTyped, LoadTemplate
    <2>4. \A a \in Addresses : a < report_length' => buffer'[a] # Zero
      BY <1>5, <2>1, <2>3 DEF LoadTemplate
    <2>5. BufferTyped'
      BY <1>1, <1>2, <1>5, <2>2, <2>3 DEF BufferTyped, LoadTemplate, BufferStates
    <2> QED
      BY <1>1, <1>5, <2>3, <2>4, <2>5 DEF EngineSound, LoadTemplate
  <1>6. CASE CaptureRest(offered, byte, last) /\ offered
    <2>1. /\ input_index \in Addresses /\ (input_index + 1) % BufferBytes \in Addresses
          /\ input_index + 1 < BufferBytes => (input_index + 1) % BufferBytes = input_index + 1
          /\ input_index + 1 = BufferBytes => (input_index + 1) % BufferBytes = 0
      BY <1>1, <1>2, Width DEF BufferTyped
    <2>2. input_index + 2 \in 1..(BufferBytes + 1)
      BY <1>2, <2>1
    <2>3. buffer' \in [Addresses -> Bytes]
      BY <1>1, <1>6, <2>1 DEF BufferTyped, CaptureRest
    <2>4. \A a \in 0..input_index : buffer[a] # Zero /\ a \in Addresses
      BY <1>1, <1>2, <1>6, <2>1 DEF CaptureRest, EngineSound
    <2>5. \A a \in Addresses :
             buffer'[a] = IF a = (input_index + 1) % BufferBytes THEN byte ELSE buffer[a]
      BY <1>1, <1>6, <2>1 DEF BufferTyped, CaptureRest
    <2>6. \A a \in Addresses : a < input_index + 2 => buffer'[a] # Zero
      BY <1>1, <1>2, <2>1, <2>4, <2>5
    <2>7. CASE last
      <3>1. istate' = "MUTATE" /\ input_index' = 0 /\ report_length' = input_index + 2
        BY <1>6, <2>7 DEF CaptureRest
      <3>2. BufferTyped'
        BY <1>1, <1>2, <1>6, <2>2, <2>3, <3>1 DEF BufferTyped, CaptureRest, BufferStates
      <3>3. report_length' # 0 /\ \A a \in Addresses : a < report_length' => buffer'[a] # Zero
        BY <2>2, <2>6, <3>1
      <3> QED
        BY <1>1, <1>6, <3>1, <3>2, <3>3 DEF EngineSound, CaptureRest
    <2>8. CASE ~last
      <3>1. istate' = istate /\ input_index' = (input_index + 1) % BufferBytes /\ report_length' = report_length
        BY <1>6, <2>8 DEF CaptureRest
      <3>2. BufferTyped'
        BY <1>1, <1>2, <1>6, <2>1, <2>3, <3>1 DEF BufferTyped, CaptureRest, BufferStates
      <3>3. \A a \in 0..input_index' : buffer'[a] # Zero
        BY <1>2, <2>1, <2>6, <3>1
      <3> QED
        BY <1>1, <1>6, <3>1, <3>2, <3>3 DEF EngineSound, CaptureRest
    <2> QED
      BY <2>7, <2>8
  <1>7. Forget /\ istate' = "CAPTURE" /\ template' \in [Endpoints -> 0..(BufferBytes + 1)]
        => BufferTyped' /\ EngineSound'
    <2> HAVE Forget /\ istate' = "CAPTURE" /\ template' \in [Endpoints -> 0..(BufferBytes + 1)]
    <2>1. buffer' \in [Addresses -> Bytes]
      BY ByteTypes DEF Forget
    <2>2. input_index' = 0 /\ output_index' = 0 /\ report_length' = 0 /\ 0 \in 0..(BufferBytes + 1)
      BY <1>2 DEF Forget
    <2>3. stationary' = FALSE /\ mapped' = FALSE /\ output_started' = FALSE
      BY DEF Forget
    <2>4. captured_endpoint' \in Endpoints
      BY <1>1 DEF Forget, BufferTyped
    <2>5. BufferTyped'
      BY <1>2, <2>1, <2>2, <2>3, <2>4 DEF BufferTyped, BufferStates
    <2>6. EngineSound'
      BY <2>2, <2>3 DEF EngineSound
    <2> QED
      BY <2>5, <2>6
  <1>8. CASE MutateEnd
    <2>1. CASE istate' = "CAPTURE" /\ Forget /\ UNCHANGED template
      BY <1>1, <1>7, <2>1 DEF BufferTyped
    <2>2. CASE /\ istate' = "OUTPUT" /\ mapped' \in {TRUE, stationary}
               /\ UNCHANGED <<buffer, input_index, output_index, report_length,
                              captured_endpoint, stationary, output_started, template>>
      <3>1. BufferTyped'
        BY <1>1, <2>2 DEF BufferTyped, BufferStates
      <3>2. output_index' < report_length'
        BY <1>1, <1>8, <2>2, Lengths DEF BufferTyped, EngineSound, MutateEnd
      <3> QED
        BY <1>1, <1>8, <2>2, <3>1, <3>2 DEF EngineSound, MutateEnd
    <2> QED
      BY <1>8, <2>1, <2>2 DEF MutateEnd
  <1>9. CASE OutputAbort
    BY <1>1, <1>7, <1>9 DEF BufferTyped, EngineSound, OutputAbort
  <1>10. CASE OutputByte
    <2>1. /\ output_index \in Addresses /\ (output_index + 1) % BufferBytes \in Addresses
          /\ output_index + 1 < BufferBytes => (output_index + 1) % BufferBytes = output_index + 1
          /\ output_index + 1 = BufferBytes => (output_index + 1) % BufferBytes = 0
      BY <1>1, <1>2, Width DEF BufferTyped
    <2>2. istate = "OUTPUT" /\ report_length \in 1..(BufferBytes + 1) /\ output_index < report_length
      BY <1>1, <1>10, Lengths DEF BufferTyped, EngineSound, OutputByte
    <2>3. CASE istate' = "CAPTURE" /\ Forget /\ UNCHANGED template
      BY <1>1, <1>7, <2>3 DEF BufferTyped
    <2>4. CASE istate' = "CACHE_COPY"
      <3>1. /\ output_index' = 0 /\ output_started' = FALSE /\ mapped' = FALSE
            /\ UNCHANGED <<buffer, input_index, report_length, captured_endpoint, stationary, template>>
        BY <1>10, <2>2, <2>4 DEF OutputByte
      <3> QED
        BY <1>1, <1>2, <2>2, <2>4, <3>1 DEF BufferTyped, EngineSound, BufferStates
    <2>5. CASE /\ ~output_last
               /\ output_index' = (output_index + 1) % BufferBytes /\ output_started' = TRUE
               /\ UNCHANGED <<istate, buffer, input_index, report_length,
                              captured_endpoint, stationary, mapped, template>>
      <3>1. output_index' < report_length
        BY <1>2, <2>1, <2>2, <2>5 DEF output_last
      <3> QED
        BY <1>1, <1>2, <2>1, <2>2, <2>5, <3>1 DEF BufferTyped, EngineSound
    <2> QED
      BY <1>10, <2>3, <2>4, <2>5 DEF OutputByte
  <1>11. CASE CacheEnd
    <2>1. template' \in [Endpoints -> 0..(BufferBytes + 1)]
      BY <1>1, <1>11 DEF BufferTyped, CacheEnd
    <2> QED
      BY <1>7, <1>11, <2>1 DEF CacheEnd
  <1> QED
    BY <1>3, <1>4, <1>5, <1>6, <1>8, <1>9, <1>10, <1>11
       DEF EngineCycle, EngineQuiet, EngineTakes, CaptureNothing, CaptureRest, MutateWait, CacheWait

\* What the relay does to the queue of one slot: the byte it reads leaves at the
\* head, and the byte it takes comes to the end.
Entry == [byte |-> buffer[output_index], last |-> output_last]
Written(s, emits) == emits /\ s = Bucket(captured_endpoint) /\ taking(s)
Left(s, ready) == IF dequeue(s, ready) THEN Tail(queue[s]) ELSE queue[s]

LEMMA LeftQueue ==
  ASSUME TInv, NEW s \in Slots, NEW ready
  PROVE  /\ queue[s] \in Seq(Entries) /\ Left(s, ready) \in Seq(Entries)
         /\ Len(queue[s]) \in Nat
         /\ dequeue(s, ready) =>
              /\ queue[s] # <<>> /\ Len(queue[s]) >= 1 /\ Head(queue[s]) = queue[s][1]
              /\ Len(Left(s, ready)) = Len(queue[s]) - 1
              /\ \A i \in 1..Len(Left(s, ready)) :
                   i + 1 \in 1..Len(queue[s]) /\ Left(s, ready)[i] = queue[s][i + 1]
         /\ ~dequeue(s, ready) => Left(s, ready) = queue[s]
  <1>1. queue[s] \in Seq(Entries) /\ Len(queue[s]) \in Nat
    BY DEF TInv, Typed, RelayTyped
  <1>2. CASE dequeue(s, ready)
    <2>1. queue[s] # <<>>
      BY <1>2 DEF dequeue, TInv, HeadsSound
    <2>2. /\ Len(queue[s]) >= 1 /\ Head(queue[s]) = queue[s][1]
          /\ Tail(queue[s]) \in Seq(Entries) /\ Len(Tail(queue[s])) = Len(queue[s]) - 1
          /\ \A i \in 1..Len(Tail(queue[s])) : Tail(queue[s])[i] = queue[s][i + 1]
      BY <1>1, <2>1, HeadTailProperties, EmptySeq
    <2>3. \A i \in 1..Len(Tail(queue[s])) : i + 1 \in 1..Len(queue[s])
      BY <1>1, <2>2
    <2>4. Left(s, ready) = Tail(queue[s])
      BY <1>2 DEF Left
    <2> QED
      BY <1>1, <1>2, <2>1, <2>2, <2>3, <2>4
  <1>3. CASE ~dequeue(s, ready)
    BY <1>1, <1>3 DEF Left
  <1> QED
    BY <1>2, <1>3

LEMMA QueueMoves ==
  ASSUME TInv, NEW emits \in BOOLEAN, NEW flush \in BOOLEAN, NEW ready,
         emits => istate = "OUTPUT", RelayCycle(emits, flush, ready), NEW s \in Slots
  PROVE  /\ queue'[s] = IF flush THEN <<>>
                        ELSE IF Written(s, emits) THEN Append(Left(s, ready), Entry) ELSE Left(s, ready)
         /\ queue'[s] \in Seq(Entries)
         /\ head_valid'[s] \in BOOLEAN
         /\ head_valid'[s] => queue'[s] # <<>>
         /\ emits => Entry \in Entries
  <1> DEFINE b == Bucket(captured_endpoint)
             taken == {c \in Slots : emits /\ c = b /\ taking(b)}
  <1>1. s \in taken <=> Written(s, emits)
    BY DEF Written
  <1>2. Queues(taken, Entry, flush, ready)
    BY DEF RelayCycle, RelayStep, Entry
  <1>3. queue'[s] = IF flush THEN <<>>
                    ELSE IF s \in taken THEN Append(Left(s, ready), Entry) ELSE Left(s, ready)
    BY <1>2 DEF Queues, Left
  <1>4. head_valid'[s] = (~flush /\ IF dequeue(s, ready) THEN Len(queue[s]) > 1 ELSE Len(queue[s]) # 0)
    BY <1>2 DEF Queues
  <1> HIDE DEF taken, b
  <1>5. emits => Entry \in Entries
    <2> HAVE emits
    <2>1. output_index \in Addresses /\ buffer[output_index] \in Bytes
      BY DEF TInv, Typed, BufferTyped
    <2>2. buffer[output_index] # Zero
      BY <2>1 DEF TInv, EngineSound, Holding
    <2>3. output_last \in BOOLEAN
      BY DEF output_last
    <2> QED
      BY <2>1, <2>2, <2>3, Zenon DEF Entry, Entries
  <1>6. Left(s, ready) \in Seq(Entries)
    BY LeftQueue
  <1>7. emits => /\ Append(Left(s, ready), Entry) \in Seq(Entries)
                 /\ Append(Left(s, ready), Entry) # <<>>
    BY <1>5, <1>6, AppendProperties
  <1>8. queue'[s] \in Seq(Entries)
    BY <1>1, <1>3, <1>6, <1>7, EmptySeq DEF Written
  <1>9. head_valid'[s] => queue'[s] # <<>>
    <2> HAVE head_valid'[s]
    <2>1. ~flush /\ IF dequeue(s, ready) THEN Len(queue[s]) > 1 ELSE Len(queue[s]) # 0
      BY <1>4
    <2>2. Len(Left(s, ready)) # 0
      BY <2>1, LeftQueue
    <2>3. Left(s, ready) # <<>>
      BY <1>6, <2>2, EmptySeq
    <2> QED
      BY <1>1, <1>3, <1>7, <2>1, <2>3 DEF Written
  <1> QED
    BY <1>1, <1>3, <1>4, <1>5, <1>8, <1>9

\* The relay keeps its types, and a valid head is the head of a queue.
LEMMA RelayType ==
  ASSUME TInv, NEW emits \in BOOLEAN, NEW flush \in BOOLEAN, NEW ready,
         emits => istate = "OUTPUT", RelayCycle(emits, flush, ready)
  PROVE  RelayTyped' /\ HeadsSound'
  <1>1. \A s \in Slots : /\ queue'[s] \in Seq(Entries) /\ head_valid'[s] \in BOOLEAN
                         /\ head_valid'[s] => queue'[s] # <<>>
    BY QueueMoves
  <1>2. queue' = [s \in Slots |-> queue'[s]] /\ head_valid' = [s \in Slots |-> head_valid'[s]]
    BY DEF RelayCycle, RelayStep, Queues
  <1>3. queue' \in [Slots -> Seq(Entries)] /\ head_valid' \in [Slots -> BOOLEAN]
    BY <1>1, <1>2
  <1>4. in_report' \in [Buckets -> BOOLEAN]
    <2>1. output_last \in BOOLEAN /\ in_report \in [Buckets -> BOOLEAN]
      BY DEF output_last, TInv, Typed, RelayTyped
    <2> QED
      BY <2>1 DEF RelayCycle, RelayStep, Admission
  <1>5. accepting' \in [Buckets -> BOOLEAN]
    BY DEF RelayCycle, RelayStep, Admission
  <1> QED
    BY <1>1, <1>3, <1>4, <1>5 DEF RelayTyped, HeadsSound

\* What the clone served keeps its types.
LEMMA ServedType ==
  ASSUME TInv, NEW flush \in BOOLEAN, NEW ready, ServedCycle(flush, ready)
  PROVE  ServedTyped'
  <1>1. \A s \in Slots : dequeue(s, ready) => /\ Head(queue[s]) \in Entries
                                              /\ Head(queue[s]).byte[2] \in Nat
    <2> TAKE s \in Slots
    <2> HAVE dequeue(s, ready)
    <2>1. Head(queue[s]) \in Entries
      BY LeftQueue, HeadTailProperties
    <2>2. Head(queue[s]).byte \in Bytes \ {Zero}
      BY <2>1 DEF Entries
    <2>3. Head(queue[s]).byte \in Nat \X Nat \X Nat
      BY <2>2 DEF Bytes
    <2> QED
      BY <2>1, <2>3
  <1>2. \A s \in Slots : served[s] \in Entries /\ newest[s] \in Nat
    BY DEF TInv, Typed, ServedTyped
  <1>3. served' \in [Slots -> Entries]
    BY <1>1, <1>2, ByteTypes DEF ServedCycle
  <1>4. newest' \in [Slots -> Nat]
    BY <1>1, <1>2 DEF ServedCycle
  <1> QED
    BY <1>3, <1>4 DEF ServedTyped

\* The initial state is sound.
LEMMA InitSound ==
  ASSUME Init
  PROVE  TInv
  <1>1. SourceAssumption /\ PathAssumption
    BY SourceAssumption, PathAssumption
  <1>2. MuxTyped
    BY <1>1 DEF Init, MuxInit, MuxTyped, Sources, SourceAssumption
  <1>3. RelayTyped /\ HeadsSound
    BY EmptySeq DEF Init, RelayInit, RelayTyped, HeadsSound
  <1>4. BufferTyped
    <2>1. 0 \in 0..(BufferBytes + 1) /\ FALSE \in BOOLEAN
      BY Lengths
    <2> QED
      BY <2>1, Width, ByteTypes DEF Init, BufferInit, BufferTyped, BufferStates
  <1>5. EngineSound
    BY DEF Init, BufferInit, EngineSound, Holding
  <1>6. ServedTyped
    BY ByteTypes DEF Init, ServedTyped
  <1>7. source \in [Sources -> SourceType] /\ SourcesSound
    <2>1. 0 \in 0..Len(ReportLengths) /\ 0 \in Nat /\ FALSE \in BOOLEAN
      BY Lengths
    <2>2. [n |-> 0, index |-> 0, full |-> FALSE] \in SourceType
      BY <2>1, SourceRecord, Zenon
    <2> QED
      BY <2>2 DEF Init, SourcesSound
  <1>8. detaches \in 0..MaxDetaches /\ flushes \in 0..MaxFlushes
    BY <1>1 DEF Init, PathAssumption
  <1> QED
    BY <1>2, <1>3, <1>4, <1>5, <1>6, <1>7, <1>8 DEF TInv, Typed

\* Every cycle keeps the state sound.
LEMMA NextSound ==
  ASSUME TInv, [Next]_vars
  PROVE  TInv'
  <1>1. CASE UNCHANGED vars
    BY <1>1 DEF vars, muxVars, relayVars, bufferVars, TInv, Typed, MuxTyped, RelayTyped, BufferTyped,
         ServedTyped, SourcesSound, EngineSound, Holding, HeadsSound
  <1>2. ASSUME NEW filled \in SUBSET Fillable, NEW detach \in BOOLEAN, NEW emits \in BOOLEAN,
               NEW flush \in BOOLEAN, NEW ready \in SUBSET {s \in Slots : head_valid[s]},
               detach => detaches < MaxDetaches, flush => flushes < MaxFlushes,
               emits => istate = "OUTPUT", Cycle(filled, detach, emits, flush, ready)
        PROVE  TInv'
    <2>1. source' \in [Sources -> SourceType] /\ SourcesSound'
      BY <1>2, SourceCycleType DEF Cycle
    <2>2. MuxTyped'
      BY <1>2, MuxType DEF Cycle
    <2>3. BufferTyped' /\ EngineSound'
      BY <1>2, EngineType DEF Cycle
    <2>4. RelayTyped' /\ HeadsSound'
      BY <1>2, RelayType DEF Cycle
    <2>5. ServedTyped'
      BY <1>2, ServedType DEF Cycle
    <2>6. detaches' \in 0..MaxDetaches /\ flushes' \in 0..MaxFlushes
      BY <1>2, PathAssumption DEF Cycle, TInv, Typed
    <2> QED
      BY <2>1, <2>2, <2>3, <2>4, <2>5, <2>6 DEF TInv, Typed
  <1> QED
    BY <1>1, <1>2 DEF Next

\* The path's registers keep their types and agree with each other, whatever
\* the devices and the PC do (host.py, injection.py, relay.py).
THEOREM PathInvariant == Spec => []TInv
  <1>1. Init => TInv
    BY InitSound
  <1>2. TInv /\ [Next]_vars => TInv'
    BY NextSound
  <1> QED
    BY <1>1, <1>2, PTL DEF Spec

-----------------------------------------------------------------------------
\* What a cycle does to the reports under way: only the engine's bytes move them.
LEMMA Admitted ==
  ASSUME TInv, NEW emits \in BOOLEAN, NEW flush \in BOOLEAN, NEW ready,
         RelayCycle(emits, flush, ready), NEW b \in Buckets
  PROVE  /\ in_report'[b] = IF emits /\ b = Bucket(captured_endpoint) THEN ~output_last ELSE in_report[b]
         /\ accepting'[b] = (~flush /\ IF emits /\ b = Bucket(captured_endpoint) THEN taking(b) ELSE accepting[b])
  BY DEF RelayCycle, RelayStep, Admission

\* A byte goes out in every cycle of OUTPUT; else no report is under way.
LEMMA OutputMoves ==
  ASSUME TInv, InStep, Unspliced, NEW emits \in BOOLEAN, emits => istate = "OUTPUT", EngineCycle(emits)
  PROVE  /\ emits /\ ~output_last => /\ istate' = "OUTPUT" /\ output_index' = output_index + 1
                                     /\ output_started' /\ captured_endpoint' = captured_endpoint
                                     /\ UNCHANGED <<buffer, report_length, stationary, template>>
         /\ emits /\ output_last => istate' # "OUTPUT"
         /\ ~emits => ~(istate = "OUTPUT" /\ output_started)
         /\ ~emits /\ istate' = "OUTPUT" => ~output_started' /\ output_index' = 0
  <1>1. BufferTyped /\ EngineSound /\ BufferBytes \in Nat
    BY Lengths DEF TInv, Typed
  <1>2. CASE emits
    <2>1. OutputByte /\ istate = "OUTPUT"
      BY <1>2 DEF EngineCycle
    <2>2. ASSUME ~output_last
          PROVE  (output_index + 1) % BufferBytes = output_index + 1
      <3>1. output_index \in Nat /\ report_length \in Nat /\ output_index < report_length
            /\ report_length <= BufferBytes /\ output_index \in Addresses
        BY <1>1, <2>1, Width DEF BufferTyped, EngineSound, Unspliced
      <3>2. output_index + 1 < BufferBytes
        BY <1>1, <2>2, <3>1 DEF output_last
      <3> QED
        BY <3>1, <3>2, Width
    <2>3. emits /\ ~output_last => /\ istate' = "OUTPUT" /\ output_index' = output_index + 1
                                   /\ output_started' /\ captured_endpoint' = captured_endpoint
                                   /\ UNCHANGED <<buffer, report_length, stationary, template>>
      BY <2>1, <2>2 DEF OutputByte
    <2>4. emits /\ output_last => istate' # "OUTPUT"
      BY <2>1 DEF OutputByte
    <2> QED
      BY <1>2, <2>3, <2>4
  <1>3. CASE ~emits
    <2>1. EngineQuiet
      BY <1>3 DEF EngineCycle
    <2>2. ~(istate = "OUTPUT" /\ output_started)
      BY <2>1 DEF EngineQuiet, EngineTakes, CaptureFirst, CaptureNothing, LoadTemplate, CaptureRest,
         MutateWait, MutateEnd, OutputAbort, CacheWait, CacheEnd
    <2>3. istate' = "OUTPUT" => ~output_started' /\ output_index' = 0
      <3> HAVE istate' = "OUTPUT"
      <3>1. MutateEnd \/ OutputAbort
        BY <2>1 DEF EngineQuiet, EngineTakes, CaptureFirst, CaptureNothing, LoadTemplate, CaptureRest,
           MutateWait, CacheWait, CacheEnd, bufferVars
      <3>2. ~output_started /\ output_index = 0
        BY <1>1, <3>1 DEF MutateEnd, OutputAbort, EngineSound, InStep
      <3> QED
        BY <3>1, <3>2 DEF MutateEnd, OutputAbort
    <2> QED
      BY <1>3, <2>2, <2>3
  <1> QED
    BY <1>2, <1>3

\* The relay and the engine keep in step, and an admitted report has room.
LEMMA InStepMoves ==
  ASSUME TInv, InStep, Unspliced, NEW emits \in BOOLEAN, NEW flush \in BOOLEAN, NEW ready,
         emits => istate = "OUTPUT", EngineCycle(emits), RelayCycle(emits, flush, ready), TInv'
  PROVE  InStep'
  <1>1. istate' = "OUTPUT" => output_index' < report_length' /\ (output_started' <=> output_index' # 0)
    <2> HAVE istate' = "OUTPUT"
    <2>1. output_index' < report_length'
      BY DEF TInv, EngineSound
    <2>2. output_index \in Nat
      BY Width DEF TInv, Typed, BufferTyped
    <2>3. output_started' <=> output_index' # 0
      BY <2>2, OutputMoves
    <2> QED
      BY <2>1, <2>3
  <1>2. ASSUME NEW b \in Buckets
        PROVE  in_report'[b] <=> istate' = "OUTPUT" /\ output_started' /\ b = Bucket(captured_endpoint')
    <2>1. in_report'[b] = IF emits /\ b = Bucket(captured_endpoint) THEN ~output_last ELSE in_report[b]
      BY Admitted
    <2>2. in_report[b] <=> istate = "OUTPUT" /\ output_started /\ b = Bucket(captured_endpoint)
      BY DEF InStep
    <2>3. CASE emits
      BY <2>1, <2>2, <2>3, OutputMoves
    <2>4. CASE ~emits
      BY <2>1, <2>2, <2>4, OutputMoves
    <2> QED
      BY <2>3, <2>4
  <1>3. Bucket(captured_endpoint)' = Bucket(captured_endpoint')
    BY DEF Bucket
  <1> QED
    BY <1>1, <1>2, <1>3 DEF InStep

LEMMA RoomMoves ==
  ASSUME TInv, InStep, Room, NoOverflow, Unspliced, NEW emits \in BOOLEAN, NEW flush \in BOOLEAN, NEW ready,
         emits => istate = "OUTPUT", EngineCycle(emits), RelayCycle(emits, flush, ready)
  PROVE  Room' /\ NoOverflow'
  <1>1. /\ BufferBytes \in Nat /\ MaxReportBytes = BufferBytes /\ MaxReportBytes >= 1 /\ FifoDepth \in Nat
        /\ output_index \in Nat /\ report_length \in Nat /\ report_length <= BufferBytes
    BY Lengths, Width DEF TInv, Typed, BufferTyped, Unspliced
  <1>2. ASSUME NEW s \in Slots
        PROVE  /\ Len(queue'[s]) <= FifoDepth
               /\ in_report'[s] /\ accepting'[s] =>
                    Len(queue'[s]) + MaxReportBytes <= FifoDepth + output_index'
    <2>1. /\ Len(queue[s]) \in Nat /\ Len(Left(s, ready)) \in Nat /\ Len(Left(s, ready)) <= Len(queue[s])
          /\ Left(s, ready) \in Seq(Entries)
      BY LeftQueue
    <2>2. /\ queue'[s] = IF flush THEN <<>>
                         ELSE IF Written(s, emits) THEN Append(Left(s, ready), Entry) ELSE Left(s, ready)
          /\ emits => Entry \in Entries
      BY QueueMoves
    <2>3. /\ Len(<<>>) = 0
          /\ emits => Len(Append(Left(s, ready), Entry)) = Len(Left(s, ready)) + 1
      BY <2>1, <2>2, AppendProperties, EmptySeq
    <2>4. Len(queue'[s]) \in Nat /\ Len(queue'[s]) <= Len(queue[s]) + 1
      BY <2>1, <2>2, <2>3 DEF Written
    <2>5. /\ Written(s, emits) => Len(queue[s]) + MaxReportBytes <= FifoDepth + output_index
          /\ Written(s, emits) => output_index < report_length
      BY <1>1, <2>1 DEF Written, taking, admit, Room, TInv, EngineSound
    <2>6. Len(queue[s]) <= FifoDepth
      BY DEF NoOverflow
    <2>7. Len(queue'[s]) <= FifoDepth
      <3>1. CASE Written(s, emits)
        BY <1>1, <2>1, <2>4, <2>5, <3>1
      <3>2. CASE ~Written(s, emits)
        BY <1>1, <2>1, <2>2, <2>3, <2>6, <3>2
      <3> QED
        BY <3>1, <3>2
    <2>8. in_report'[s] /\ accepting'[s] => Len(queue'[s]) + MaxReportBytes <= FifoDepth + output_index'
      <3> HAVE in_report'[s] /\ accepting'[s]
      <3>1. /\ s \in Buckets
            /\ in_report'[s] = IF emits /\ s = Bucket(captured_endpoint) THEN ~output_last ELSE in_report[s]
            /\ accepting'[s] = (~flush /\ IF emits /\ s = Bucket(captured_endpoint) THEN taking(s) ELSE accepting[s])
        BY Admitted DEF Buckets
      <3>2. in_report[s] => istate = "OUTPUT" /\ output_started /\ s = Bucket(captured_endpoint)
        BY <3>1 DEF InStep
      <3>3. emits /\ s = Bucket(captured_endpoint) /\ ~output_last /\ taking(s)
        BY <3>1, <3>2, OutputMoves
      <3>4. output_index' = output_index + 1
        BY <3>3, OutputMoves
      <3> QED
        BY <1>1, <2>1, <2>4, <2>5, <3>3, <3>4 DEF Written
    <2> QED
      BY <2>7, <2>8
  <1> QED
    BY <1>2 DEF Room, NoOverflow

\* As long as no report is longer than the buffer, no queue of the relay is
\* written past its depth, though it holds nobody off: a report admitted at its
\* first byte has room to its last.  (Two reports spliced by a lost device can
\* be longer: see WholeReports.)
THEOREM NoQueueOverflows == Spec /\ []Unspliced => []TypeOK
  <1>1. Init => InStep /\ Room /\ NoOverflow
    <2> HAVE Init
    <2>1. /\ istate = "CAPTURE" /\ \A b \in Buckets : in_report[b] = FALSE
          /\ \A s \in Slots : queue[s] = <<>> /\ s \in Buckets
      BY DEF Init, BufferInit, RelayInit, Buckets
    <2> QED
      BY <2>1, Lengths, EmptySeq DEF InStep, Room, NoOverflow
  <1>2. TInv /\ TInv' /\ Unspliced /\ InStep /\ Room /\ NoOverflow /\ [Next]_vars
        => InStep' /\ Room' /\ NoOverflow'
    <2> HAVE TInv /\ TInv' /\ Unspliced /\ InStep /\ Room /\ NoOverflow /\ [Next]_vars
    <2>1. CASE UNCHANGED vars
      BY <2>1 DEF vars, relayVars, bufferVars, InStep, Room, NoOverflow, Bucket
    <2>2. CASE Next
      <3>1. PICK filled \in SUBSET Fillable, detach \in BOOLEAN, emits \in BOOLEAN, flush \in BOOLEAN,
                 ready \in SUBSET {s \in Slots : head_valid[s]} :
              (emits => istate = "OUTPUT") /\ Cycle(filled, detach, emits, flush, ready)
        BY <2>2 DEF Next
      <3>2. EngineCycle(emits) /\ RelayCycle(emits, flush, ready)
        BY <3>1 DEF Cycle
      <3> QED
        BY <3>1, <3>2, InStepMoves, RoomMoves
    <2> QED
      BY <2>1, <2>2
  <1>3. TInv /\ NoOverflow => TypeOK
    BY DEF TInv, Typed, MuxTyped, RelayTyped, BufferTyped, TypeOK, SourceType
  <1> QED
    BY <1>1, <1>2, <1>3, PathInvariant, PTL DEF Spec

-----------------------------------------------------------------------------
\* What the pollers' buffers and the multiplexer do as long as the device is
\* there: the byte the engine takes is the byte the locked source offers.
Taken == offered /\ engine_ready

LEMMA Streams ==
  ASSUME TInv, Capturing, NEW filled \in SUBSET Fillable, SourceCycle(filled, FALSE), MuxCycle
  PROVE  /\ \A k \in Sources : k # sel \/ ~Taken =>
              IF k \in filled
              THEN ~source[k].full /\ source'[k].n = source[k].n + 1 /\ source'[k].index = 0 /\ source'[k].full
              ELSE source'[k] = source[k]
         /\ Taken => locked /\ source[sel].full
         /\ Taken /\ last => /\ ~locked' /\ source[sel].index = ReportLengths[source[sel].n] - 1
                             /\ ~source'[sel].full /\ source'[sel].n = source[sel].n /\ source'[sel].index = 0
         /\ Taken /\ ~last => /\ UNCHANGED <<sel, locked>> /\ source[sel].index # ReportLengths[source[sel].n] - 1
                              /\ source'[sel].full /\ source'[sel].n = source[sel].n
                              /\ source'[sel].index = source[sel].index + 1
         /\ locked' => source'[sel'].full
         /\ locked /\ ~(Taken /\ last) => locked' /\ sel' = sel
  <1>1. sel \in Sources /\ locked \in BOOLEAN /\ source[sel] \in SourceType
    BY DEF TInv, Typed, MuxTyped
  <1>2. \A k \in Sources : full[k] = source[k].full
    BY DEF full
  <1>3. offered <=> locked /\ source[sel].full
    BY <1>1, <1>2 DEF offered, report_valid
  <1>4. last <=> offered /\ source[sel].index = ReportLengths[source[sel].n] - 1
    BY DEF last
  <1>5. \A k \in Sources : k \in filled => ~source[k].full
    BY DEF Fillable
  <1>6. \A k \in Sources : source[k].full /\ source_ready(k, engine_ready) <=> k = sel /\ Taken
    BY <1>1, <1>3 DEF source_ready, Taken
  <1>7. \A k \in Sources : source'[k] = Streamed(k, filled)
    BY DEF SourceCycle
  <1>8. ASSUME NEW k \in Sources, k # sel \/ ~Taken
        PROVE  IF k \in filled
               THEN ~source[k].full /\ source'[k].n = source[k].n + 1 /\ source'[k].index = 0 /\ source'[k].full
               ELSE source'[k] = source[k]
    <2>1. k \in filled => source'[k] = [n |-> source[k].n + 1, index |-> 0, full |-> TRUE]
      BY <1>7 DEF Streamed
    <2>2. k \notin filled => source'[k] = source[k]
      BY <1>6, <1>7, <1>8 DEF Streamed
    <2> QED
      BY <1>5, <2>1, <2>2
  <1>9. Taken => locked /\ source[sel].full /\ sel \notin filled
    BY <1>1, <1>3, <1>5 DEF Taken
  <1>10. Taken /\ last => source'[sel] = Emptied(source[sel])
    BY <1>1, <1>4, <1>6, <1>7, <1>9 DEF Streamed
  <1>11. Taken /\ ~last => source'[sel] = [source[sel] EXCEPT !.index = source[sel].index + 1]
    BY <1>1, <1>3, <1>4, <1>6, <1>7, <1>9 DEF Streamed, Taken
  <1>12. MuxStep(full, engine_ready, last)
    BY DEF MuxCycle
  <1>13. locked => source[sel].full
    BY DEF Capturing
  <1>14. Taken <=> locked /\ full[sel] /\ engine_ready
    BY <1>1, <1>2, <1>3 DEF Taken
  <1>15. Taken /\ last => ~locked'
    BY <1>12, <1>14 DEF MuxStep
  <1>16. locked /\ ~(Taken /\ last) => locked' /\ sel' = sel
    BY <1>1, <1>2, <1>12, <1>13, <1>14 DEF MuxStep, muxVars
  <1>17. ~locked /\ locked' => sel' \in Sources /\ full[sel']
    BY <1>12 DEF MuxStep, muxVars
  <1>18. Taken /\ last => /\ source[sel].index = ReportLengths[source[sel].n] - 1
                          /\ ~source'[sel].full /\ source'[sel].n = source[sel].n /\ source'[sel].index = 0
    BY <1>1, <1>4, <1>10, SourceUpdate
  <1>19. Taken /\ ~last => /\ UNCHANGED <<sel, locked>> /\ source[sel].index # ReportLengths[source[sel].n] - 1
                           /\ source'[sel].full /\ source'[sel].n = source[sel].n
                           /\ source'[sel].index = source[sel].index + 1
    <2> HAVE Taken /\ ~last
    <2>1. source'[sel] = [n |-> source[sel].n, index |-> source[sel].index + 1, full |-> source[sel].full]
      BY <1>1, <1>11, SourceUpdate
    <2> QED
      BY <1>3, <1>4, <1>9, <1>16, <2>1 DEF Taken
  <1>20. locked' => source'[sel'].full
    <2>1. CASE ~locked
      <3> HAVE locked'
      <3>1. sel' \in Sources /\ source[sel'].full /\ ~Taken
        BY <1>2, <1>9, <1>17, <2>1
      <3> QED
        BY <1>8, <3>1
    <2>2. CASE locked /\ ~Taken
      <3>1. sel' = sel /\ sel \notin filled
        BY <1>1, <1>5, <1>13, <1>16, <2>2
      <3>2. source'[sel] = source[sel]
        BY <1>1, <1>8, <2>2, <3>1
      <3> QED
        BY <1>13, <2>2, <3>1, <3>2
    <2>3. CASE Taken /\ last
      BY <1>15, <2>3
    <2>4. CASE Taken /\ ~last
      BY <1>19, <2>4
    <2> QED
      BY <1>1, <1>9, <2>1, <2>2, <2>3, <2>4
  <1> QED
    BY <1>8, <1>9, <1>15, <1>16, <1>18, <1>19, <1>20

\* The engine, when it takes a byte and when it takes none.
LEMMA Captures ==
  ASSUME TInv, Capturing, NEW emits \in BOOLEAN, emits => istate = "OUTPUT", EngineCycle(emits)
  PROVE  /\ Taken <=> istate = "CAPTURE_REST" \/ (istate = "CAPTURE" /\ offered /\ first)
         /\ Taken /\ istate = "CAPTURE" => CaptureFirst(sel, byte, last)
         /\ Taken /\ istate = "CAPTURE_REST" => CaptureRest(TRUE, byte, last)
         /\ ~Taken => \/ UNCHANGED bufferVars
                      \/ \E k \in Endpoints : LoadTemplate(k)
                      \/ MutateEnd \/ OutputAbort \/ CacheEnd \/ OutputByte
         /\ ~Taken => istate' # "CAPTURE_REST"
  <1>1. offered <=> locked /\ source[sel].full
    BY DEF offered, report_valid, full, TInv, Typed, MuxTyped
  <1>2. istate = "CAPTURE_REST" => offered
    BY <1>1 DEF Capturing
  <1>3. Taken <=> istate = "CAPTURE_REST" \/ (istate = "CAPTURE" /\ offered /\ first)
    BY <1>2 DEF Taken, engine_ready, buffer_ready
  <1>4. Taken /\ istate = "CAPTURE" => CaptureFirst(sel, byte, last)
    BY <1>3 DEF EngineCycle, EngineQuiet, EngineTakes, CaptureRest, MutateWait, MutateEnd, OutputAbort,
       CacheWait, CacheEnd
  <1>5. Taken /\ istate = "CAPTURE_REST" => CaptureRest(TRUE, byte, last)
    BY <1>2 DEF EngineCycle, EngineQuiet, EngineTakes, CaptureFirst, CaptureNothing, LoadTemplate,
       CaptureRest, MutateWait, MutateEnd, OutputAbort, CacheWait, CacheEnd
  <1>6. ~Taken => \/ UNCHANGED bufferVars
                  \/ \E k \in Endpoints : LoadTemplate(k)
                  \/ MutateEnd \/ OutputAbort \/ CacheEnd \/ OutputByte
    BY <1>3 DEF EngineCycle, EngineQuiet, EngineTakes, CaptureFirst, CaptureNothing, CaptureRest,
       MutateWait, CacheWait
  <1>7. ~Taken => istate' # "CAPTURE_REST"
    BY <1>3, <1>6 DEF bufferVars, LoadTemplate, MutateEnd, OutputAbort, CacheEnd, OutputByte
  <1> QED
    BY <1>3, <1>4, <1>5, <1>6, <1>7

\* The first bytes of a report are captured as its source offers them.
LEMMA CapturingMoves ==
  ASSUME TInv, TInv', Capturing, NEW filled \in SUBSET Fillable, SourceCycle(filled, FALSE), MuxCycle,
         NEW emits \in BOOLEAN, emits => istate = "OUTPUT", EngineCycle(emits)
  PROVE  Capturing'
  <1>1. /\ BufferTyped /\ EngineSound /\ sel \in Sources /\ source[sel] \in SourceType
        /\ source[sel].index \in Nat /\ Len(ReportLengths) \in Nat
        /\ source[sel].n \in 0..Len(ReportLengths)
        /\ BufferBytes \in Nat \ {0, 1} /\ input_index \in Addresses /\ input_index \in Nat
    BY Lengths, SourceUpdate, Width DEF TInv, Typed, MuxTyped, BufferTyped
  <1>2. locked' => source'[sel'].full
    BY Streams
  <1>3. \A k \in Sources : k # sel => source[k].index = 0
    BY DEF Capturing
  <1>4. \A k \in Sources : k # sel \/ (~Taken /\ source[sel].index = 0) => source'[k].index = 0
    <2>1. ASSUME NEW k \in Sources, k # sel \/ ~Taken, source[k].index = 0
          PROVE  source'[k].index = 0
      <3>1. IF k \in filled THEN source'[k].index = 0 ELSE source'[k] = source[k]
        BY <2>1, Streams
      <3> QED
        BY <2>1, <3>1
    <2> QED
      BY <1>3, <2>1
  <1>5. CASE ~Taken
    <2>1. source[sel].index = 0
      BY <1>1, <1>5, Captures DEF Capturing
    <2> QED
      BY <1>2, <1>4, <1>5, <2>1, Captures DEF Capturing
  <1>6. CASE Taken /\ last
    <2>1. \A k \in Sources : source'[k].index = 0
      BY <1>4, <1>6, Streams
    <2>2. istate' = "MUTATE"
      BY <1>6, Captures DEF CaptureFirst, CaptureRest
    <2> QED
      BY <1>2, <2>1, <2>2 DEF Capturing
  <1>7. CASE Taken /\ ~last
    <2>1. /\ locked /\ locked' /\ sel' = sel /\ source'[sel].full /\ source'[sel].n = source[sel].n
          /\ source'[sel].index = source[sel].index + 1 /\ source[sel].full
          /\ source[sel].index # ReportLengths[source[sel].n] - 1
      BY <1>7, Streams
    <2>2. istate' = "CAPTURE_REST"
      BY <1>7, Captures DEF CaptureFirst, CaptureRest
    <2>3. CASE istate = "CAPTURE"
      <3>1. CaptureFirst(sel, byte, last) /\ source[sel].index = 0
        BY <1>1, <1>7, <2>3, Captures DEF Capturing
      <3>2. captured_endpoint' = sel /\ input_index' = 0 /\ buffer'[0] = <<sel, source[sel].n, 1>>
        BY <1>1, <3>1, Width DEF CaptureFirst, byte, BufferTyped
      <3>3. \A a \in 0..input_index' : buffer'[a] = <<sel, source[sel].n, a + 1>>
        BY <3>2
      <3> QED
        BY <1>2, <1>4, <2>1, <2>2, <3>1, <3>2, <3>3 DEF Capturing
    <2>4. CASE istate = "CAPTURE_REST"
      <3>1. CaptureRest(TRUE, byte, last)
        BY <1>7, <2>4, Captures
      <3>2. /\ sel = captured_endpoint /\ source[sel].index = input_index + 1
            /\ \A a \in 0..input_index : buffer[a] = <<sel, source[sel].n, a + 1>>
        BY <2>4 DEF Capturing
      <3>3. source[sel].n \in 1..Len(ReportLengths) /\ source[sel].index < ReportLengths[source[sel].n]
        BY <1>1, <2>1 DEF TInv, SourcesSound
      <3>4. ReportLengths[source[sel].n] \in 1..BufferBytes
        BY <3>3, Lengths
      <3>5. input_index + 1 < BufferBytes /\ input_index + 1 \in Addresses
        BY <1>1, <2>1, <3>2, <3>3, <3>4, Width
      <3>6. (input_index + 1) % BufferBytes = input_index + 1
        BY <1>1, <3>5, Width
      <3>7. /\ input_index' = input_index + 1 /\ captured_endpoint' = captured_endpoint
            /\ \A a \in Addresses : buffer'[a] = IF a = input_index + 1 THEN byte ELSE buffer[a]
        BY <1>1, <1>7, <3>1, <3>6 DEF CaptureRest, BufferTyped
      <3>8. byte = <<sel, source[sel].n, input_index + 2>>
        BY <1>1, <3>2 DEF byte
      <3>9. ASSUME NEW a \in 0..input_index'
            PROVE  buffer'[a] = <<sel, source[sel].n, a + 1>>
        <4>1. a \in Addresses /\ (a = input_index + 1 \/ a \in 0..input_index)
          BY <1>1, <3>5, <3>7, Width
        <4>2. CASE a = input_index + 1
          <5>1. a + 1 = input_index + 2
            BY <1>1, <4>2
          <5> QED
            BY <3>7, <3>8, <4>1, <4>2, <5>1
        <4>3. CASE a \in 0..input_index
          <5>1. a # input_index + 1
            BY <1>1, <4>3
          <5> QED
            BY <3>2, <3>7, <4>1, <4>3, <5>1
        <4> QED
          BY <4>1, <4>2, <4>3
      <3> QED
        BY <1>1, <1>2, <1>4, <2>1, <2>2, <3>2, <3>7, <3>9 DEF Capturing
    <2> QED
      BY <1>7, <2>3, <2>4, Captures
  <1> QED
    BY <1>5, <1>6, <1>7

\* What is captured is a whole report, no longer than the buffer; and so is what
\* is sent from a template.
Report(len, k, n, buf) ==
    /\ len \in 1..BufferBytes
    /\ \A a \in 0..(len - 1) : buf[a] = <<k, n, a + 1>>

LEMMA CapturesWhole ==
  ASSUME TInv, Capturing, Held, NEW filled \in SUBSET Fillable, SourceCycle(filled, FALSE), MuxCycle,
         NEW emits \in BOOLEAN, emits => istate = "OUTPUT", EngineCycle(emits), Taken
  PROVE  /\ captured_endpoint' = sel /\ ~stationary' /\ template' = template /\ ~emits
         /\ last => /\ istate' = "MUTATE"
                    /\ source[sel].n \in 1..Len(ReportLengths) /\ report_length' = ReportLengths[source[sel].n]
                    /\ Report(report_length', sel, source[sel].n, buffer')
         /\ ~last => istate' = "CAPTURE_REST" /\ report_length' = 0
  <1>1. /\ BufferTyped /\ EngineSound /\ sel \in Sources /\ source[sel] \in SourceType
        /\ source[sel].index \in Nat /\ Len(ReportLengths) \in Nat
        /\ source[sel].n \in 0..Len(ReportLengths)
        /\ BufferBytes \in Nat \ {0, 1} /\ input_index \in Addresses /\ input_index \in Nat
    BY Lengths, SourceUpdate, Width DEF TInv, Typed, MuxTyped, BufferTyped
  <1>2. source[sel].full /\ (last => source[sel].index = ReportLengths[source[sel].n] - 1)
    BY Streams
  <1>3. source[sel].n \in 1..Len(ReportLengths)
    BY <1>1, <1>2 DEF TInv, SourcesSound
  <1>4. ReportLengths[source[sel].n] \in 1..BufferBytes
    BY <1>3, Lengths
  <1>5. CASE istate = "CAPTURE"
    <2>1. CaptureFirst(sel, byte, last) /\ source[sel].index = 0
      BY <1>1, <1>5, Captures DEF Capturing
    <2>2. /\ captured_endpoint' = sel /\ ~stationary' /\ template' = template
          /\ buffer'[0] = <<sel, source[sel].n, 1>>
      BY <1>1, <1>5, <2>1, Width DEF CaptureFirst, byte, BufferTyped, EngineSound
    <2>3. ASSUME last
          PROVE  /\ istate' = "MUTATE" /\ report_length' = ReportLengths[source[sel].n]
                 /\ Report(report_length', sel, source[sel].n, buffer')
      <3>1. istate' = "MUTATE" /\ report_length' = 1 /\ ReportLengths[source[sel].n] = 1
        BY <1>2, <1>4, <2>1, <2>3 DEF CaptureFirst
      <3>2. \A a \in 0..(1 - 1) : buffer'[a] = <<sel, source[sel].n, a + 1>>
        BY <2>2
      <3> QED
        BY <1>1, <3>1, <3>2 DEF Report
    <2>4. ~last => istate' = "CAPTURE_REST" /\ report_length' = 0
      BY <2>1 DEF CaptureFirst
    <2>5. ~emits
      BY <1>5
    <2> QED
      BY <1>3, <2>2, <2>3, <2>4, <2>5
  <1>6. CASE istate = "CAPTURE_REST"
    <2>1. CaptureRest(TRUE, byte, last)
      BY <1>6, Captures
    <2>2. /\ sel = captured_endpoint /\ source[sel].index = input_index + 1
          /\ \A a \in 0..input_index : buffer[a] = <<sel, source[sel].n, a + 1>>
      BY <1>6 DEF Capturing
    <2>3. captured_endpoint' = sel /\ ~stationary' /\ template' = template
      BY <1>1, <1>6, <2>1, <2>2 DEF CaptureRest, EngineSound
    <2>4. ASSUME last
          PROVE  /\ istate' = "MUTATE" /\ report_length' = ReportLengths[source[sel].n]
                 /\ Report(report_length', sel, source[sel].n, buffer')
      <3>1. /\ istate' = "MUTATE" /\ report_length' = input_index + 2
            /\ ReportLengths[source[sel].n] = input_index + 2
        <4>1. istate' = "MUTATE" /\ report_length' = input_index + 2
          BY <2>1, <2>4 DEF CaptureRest
        <4>2. input_index + 1 = ReportLengths[source[sel].n] - 1
          BY <1>2, <2>2, <2>4
        <4> QED
          BY <1>1, <1>4, <4>1, <4>2
      <3>2. input_index + 1 < BufferBytes /\ input_index + 1 \in Addresses
        BY <1>1, <1>4, <3>1, Width
      <3>3. (input_index + 1) % BufferBytes = input_index + 1
        BY <1>1, <3>2, Width
      <3>4. \A a \in Addresses : buffer'[a] = IF a = input_index + 1 THEN byte ELSE buffer[a]
        BY <1>1, <2>1, <3>3 DEF CaptureRest, BufferTyped
      <3>5. byte = <<sel, source[sel].n, input_index + 2>>
        BY <1>1, <2>2 DEF byte
      <3>6. ASSUME NEW a \in 0..(input_index + 1)
            PROVE  buffer'[a] = <<sel, source[sel].n, a + 1>>
        <4>1. a \in Addresses /\ (a = input_index + 1 \/ a \in 0..input_index)
          BY <1>1, <3>2, Width
        <4>2. CASE a = input_index + 1
          <5>1. a + 1 = input_index + 2
            BY <1>1, <4>2
          <5> QED
            BY <3>4, <3>5, <4>1, <4>2, <5>1
        <4>3. CASE a \in 0..input_index
          <5>1. a # input_index + 1
            BY <1>1, <4>3
          <5> QED
            BY <2>2, <3>4, <4>1, <4>3, <5>1
        <4> QED
          BY <4>1, <4>2, <4>3
      <3>7. \A a \in 0..(report_length' - 1) : buffer'[a] = <<sel, source[sel].n, a + 1>>
        <4>1. report_length' - 1 = input_index + 1
          BY <1>1, <3>1
        <4> QED
          BY <3>6, <4>1
      <3>8. report_length' \in 1..BufferBytes
        BY <1>4, <3>1
      <3> QED
        BY <3>1, <3>7, <3>8 DEF Report
    <2>5. ~last => istate' = "CAPTURE_REST" /\ report_length' = 0
      BY <1>6, <2>1 DEF CaptureRest, Held, Holding
    <2> QED
      BY <1>3, <1>6, <2>3, <2>4, <2>5
  <1> QED
    BY <1>5, <1>6, Captures

\* Number is the second part of each byte of the report held.
LEMMA ReportNumber ==
  ASSUME NEW len, NEW k, NEW n, NEW buf, Report(len, k, n, buf)
  PROVE  buf[0] = <<k, n, 1>> /\ buf[0][2] = n
  <1>1. 0 \in 0..(len - 1)
    BY DEF Report
  <1>2. buf[0] = <<k, n, 0 + 1>>
    BY <1>1 DEF Report
  <1> QED
    BY <1>2

\* What the engine holds, in short.
HeldReport ==
    /\ Report(report_length, captured_endpoint, Number, buffer)
    /\ IF stationary THEN Number = 0
       ELSE Number \in 1..Len(ReportLengths) /\ report_length = ReportLengths[Number]

LEMMA HeldForm ==
  ASSUME TInv
  PROVE  Held <=> /\ Holding => HeldReport
                  /\ ~Holding => report_length = 0
                  /\ \A k \in Endpoints : template[k] <= BufferBytes
  <1>1. report_length \in 0..(BufferBytes + 1) /\ BufferBytes \in Nat /\ (Holding => report_length # 0)
    BY Lengths DEF TInv, Typed, BufferTyped, EngineSound
  <1>2. Holding => (report_length <= BufferBytes <=> report_length \in 1..BufferBytes)
    BY <1>1
  <1> QED
    BY <1>2 DEF Held, HeldReport, Report

LEMMA HeldMoves ==
  ASSUME TInv, TInv', Capturing, Held, NEW filled \in SUBSET Fillable, SourceCycle(filled, FALSE), MuxCycle,
         NEW emits \in BOOLEAN, emits => istate = "OUTPUT", EngineCycle(emits)
  PROVE  Held'
  <1>1. /\ BufferTyped /\ EngineSound /\ BufferBytes \in Nat \ {0, 1}
        /\ \A k \in Endpoints : template[k] <= BufferBytes
        /\ Holding => HeldReport
        /\ ~Holding => report_length = 0
    BY Lengths, HeldForm DEF TInv, Typed
  <1>2. (/\ Holding' => HeldReport'
         /\ ~Holding' => report_length' = 0
         /\ \A k \in Endpoints : template'[k] <= BufferBytes) => Held'
    BY DEF Held, HeldReport, Report
  <1>3. CASE Taken
    <2>1. \A k \in Endpoints : template'[k] <= BufferBytes
      BY <1>1, <1>3, CapturesWhole
    <2>2. CASE ~last
      BY <1>2, <1>3, <2>1, <2>2, CapturesWhole DEF Holding
    <2>3. CASE last
      <3>1. /\ captured_endpoint' = sel /\ ~stationary' /\ istate' = "MUTATE"
            /\ source[sel].n \in 1..Len(ReportLengths) /\ report_length' = ReportLengths[source[sel].n]
            /\ Report(report_length', sel, source[sel].n, buffer')
        BY <1>3, <2>3, CapturesWhole
      <3>2. Number' = source[sel].n
        BY <3>1, ReportNumber DEF Number
      <3>3. HeldReport'
        BY <3>1, <3>2 DEF HeldReport, Report
      <3> QED
        BY <1>2, <2>1, <3>1, <3>3 DEF Holding
    <2> QED
      BY <2>2, <2>3
  <1>4. CASE UNCHANGED bufferVars
    BY <1>1, <1>2, <1>4 DEF bufferVars, Holding, HeldReport, Report, Number
  <1>5. ASSUME NEW k \in Endpoints, LoadTemplate(k)
        PROVE  Held'
    <2>1. /\ report_length' = template[k] /\ captured_endpoint' = k /\ stationary' /\ istate' = "MUTATE"
          /\ template' = template /\ template[k] \in 1..BufferBytes
      BY <1>1, <1>5 DEF LoadTemplate, BufferTyped
    <2>2. \A a \in 0..(template[k] - 1) : buffer'[a] = <<k, 0, a + 1>>
      <3>1. \A a \in 0..(template[k] - 1) : a \in Addresses /\ a < template[k]
        BY <1>1, <2>1, Width
      <3> QED
        BY <1>5, <3>1 DEF LoadTemplate, Injected
    <2>3. Report(report_length', k, 0, buffer')
      BY <2>1, <2>2 DEF Report
    <2>4. Number' = 0
      BY <2>3, ReportNumber DEF Number
    <2>5. HeldReport'
      BY <2>1, <2>3, <2>4 DEF HeldReport, Report
    <2> QED
      BY <1>1, <1>2, <2>1, <2>5 DEF Holding
  <1>6. Forget /\ istate' = "CAPTURE" /\ (\A k \in Endpoints : template'[k] <= BufferBytes) => Held'
    BY <1>2 DEF Forget, Holding
  <1>7. ASSUME Holding, Holding',
               UNCHANGED <<report_length, captured_endpoint, stationary, buffer, template>>
        PROVE  Held'
    <2>1. HeldReport'
      BY <1>1, <1>7 DEF HeldReport, Report, Number
    <2> QED
      BY <1>1, <1>2, <1>7, <2>1
  <1>8. CASE MutateEnd
    BY <1>1, <1>6, <1>7, <1>8 DEF MutateEnd, Holding
  <1>9. CASE OutputAbort
    BY <1>1, <1>6, <1>7, <1>9 DEF OutputAbort, Holding
  <1>10. CASE OutputByte
    BY <1>1, <1>6, <1>7, <1>10 DEF OutputByte, Holding
  <1>11. CASE CacheEnd
    <2>1. report_length <= BufferBytes
      BY <1>1, <1>11 DEF CacheEnd, Holding, HeldReport, Report
    <2>2. \A k \in Endpoints : template'[k] <= BufferBytes
      BY <1>1, <1>11, <2>1 DEF CacheEnd, BufferTyped
    <2> QED
      BY <1>6, <1>11, <2>2 DEF CacheEnd
  <1> QED
    BY <1>3, <1>4, <1>5, <1>8, <1>9, <1>10, <1>11, Captures

\* The report the engine holds to be sent: just captured, or the one it held.
LEMMA HeldNext ==
  ASSUME TInv, Capturing, Held, Unspliced, InStep,
         NEW filled \in SUBSET Fillable, SourceCycle(filled, FALSE), MuxCycle,
         NEW emits \in BOOLEAN, emits => istate = "OUTPUT", EngineCycle(emits),
         istate' \in {"MUTATE", "OUTPUT"}, ~stationary'
  PROVE  \/ /\ Taken /\ last /\ ~emits
            /\ captured_endpoint' = sel /\ Number' = source[sel].n
         \/ /\ ~Taken /\ istate \in {"MUTATE", "OUTPUT"} /\ ~stationary
            /\ captured_endpoint' = captured_endpoint /\ Number' = Number
            /\ emits => ~output_last
  <1>1. CASE Taken
    <2>1. last
      BY <1>1, CapturesWhole
    <2>2. /\ captured_endpoint' = sel /\ ~emits
          /\ Report(report_length', sel, source[sel].n, buffer')
      BY <1>1, <2>1, CapturesWhole
    <2>3. Number' = source[sel].n
      BY <2>2, ReportNumber DEF Number
    <2> QED
      BY <1>1, <2>1, <2>2, <2>3
  <1>2. CASE ~Taken
    <2>1. UNCHANGED bufferVars \/ MutateEnd \/ OutputAbort \/ OutputByte
      BY <1>2, Captures DEF LoadTemplate, CacheEnd
    <2>2. /\ istate \in {"MUTATE", "OUTPUT"} /\ ~stationary
          /\ captured_endpoint' = captured_endpoint /\ buffer' = buffer
      <3>1. CASE UNCHANGED bufferVars
        BY <3>1 DEF bufferVars
      <3>2. CASE MutateEnd
        <4>1. istate = "MUTATE" /\ istate' # "CAPTURE"
          BY <3>2 DEF MutateEnd
        <4>2. UNCHANGED <<buffer, captured_endpoint, stationary>>
          BY <3>2, <4>1, Zenon DEF MutateEnd
        <4> QED
          BY <4>1, <4>2
      <3>3. CASE OutputAbort
        BY <3>3 DEF OutputAbort
      <3>4. CASE OutputByte
        BY <3>4 DEF OutputByte
      <3> QED
        BY <2>1, <3>1, <3>2, <3>3, <3>4
    <2>3. emits => ~output_last
      BY <1>2, OutputMoves DEF EngineCycle, OutputByte
    <2> QED
      BY <1>2, <2>2, <2>3 DEF Number
  <1> QED
    BY <1>1, <1>2

\* The byte the engine sends.
LEMMA EntrySound ==
  ASSUME TInv, Held, istate = "OUTPUT"
  PROVE  /\ Entry.byte = buffer[output_index] /\ Entry.last = output_last
         /\ Entry.byte = <<captured_endpoint, Number, output_index + 1>>
         /\ Entry.byte # Zero
         /\ Entry.byte[1] = captured_endpoint /\ Entry.byte[2] = Number /\ Entry.byte[3] = output_index + 1
         /\ Number \in Nat
         /\ Number # 0 => ~stationary /\ (output_last <=> output_index + 1 = ReportLengths[Number])
         /\ output_index # 0 => buffer[output_index - 1] = <<captured_endpoint, Number, output_index>>
  <1>1. HeldReport /\ output_index < report_length /\ output_index \in Nat /\ output_index \in Addresses
    BY HeldForm, Width DEF Holding, TInv, Typed, BufferTyped, EngineSound
  <1>2. report_length \in 1..BufferBytes /\ BufferBytes \in Nat
    BY <1>1, Lengths DEF HeldReport, Report
  <1>3. output_index \in 0..(report_length - 1) /\ (output_index # 0 => output_index - 1 \in 0..(report_length - 1))
    BY <1>1, <1>2
  <1>4. buffer[output_index] = <<captured_endpoint, Number, output_index + 1>>
    BY <1>1, <1>3 DEF HeldReport, Report
  <1>5. output_index # 0 => buffer[output_index - 1] = <<captured_endpoint, Number, output_index>>
    <2> HAVE output_index # 0
    <2>1. buffer[output_index - 1] = <<captured_endpoint, Number, (output_index - 1) + 1>>
      BY <1>1, <1>3 DEF HeldReport, Report
    <2>2. (output_index - 1) + 1 = output_index
      BY <1>1
    <2> QED
      BY <2>1, <2>2
  <1>6. Entry.byte = buffer[output_index] /\ Entry.last = output_last
    BY DEF Entry
  <1>7. Number \in Nat
    BY <1>1, Lengths DEF HeldReport
  <1>8. Number # 0 => ~stationary /\ report_length = ReportLengths[Number]
    BY <1>1 DEF HeldReport
  <1>9. output_last <=> output_index + 1 = report_length
    BY <1>1, <1>2 DEF output_last
  <1>10. buffer[output_index] # Zero
    BY <1>1 DEF TInv, EngineSound, Holding
  <1> QED
    BY <1>4, <1>5, <1>6, <1>7, <1>8, <1>9, <1>10

\* What the clone has served.
LEMMA ServedMoves ==
  ASSUME TInv, NEW flush \in BOOLEAN, NEW ready, ServedCycle(flush, ready), NEW s \in Slots
  PROVE  /\ served'[s] = IF flush THEN NothingServed ELSE IF dequeue(s, ready) THEN queue[s][1] ELSE served[s]
         /\ newest'[s] = IF dequeue(s, ready) /\ queue[s][1].last /\ queue[s][1].byte[2] # 0
                         THEN queue[s][1].byte[2] ELSE newest[s]
  <1>1. dequeue(s, ready) => Head(queue[s]) = queue[s][1]
    BY LeftQueue
  <1>2. served'[s] = IF flush THEN NothingServed ELSE IF dequeue(s, ready) THEN Head(queue[s]) ELSE served[s]
    BY DEF ServedCycle
  <1>3. newest'[s] = IF dequeue(s, ready) /\ Head(queue[s]).last /\ Head(queue[s]).byte[2] # 0
                     THEN Head(queue[s]).byte[2] ELSE newest[s]
    BY DEF ServedCycle
  <1> QED
    BY <1>1, <1>2, <1>3

\* An entry of the new queue was there, or is the byte the engine sends.
LEMMA EntryMoves ==
  ASSUME TInv, NEW emits \in BOOLEAN, NEW flush \in BOOLEAN, NEW ready,
         emits => istate = "OUTPUT", RelayCycle(emits, flush, ready), NEW s \in Slots
  PROVE  /\ \A i \in 1..Len(queue'[s]) :
              \/ /\ i \in 1..Len(Left(s, ready)) /\ queue'[s][i] = Left(s, ready)[i] /\ ~flush
              \/ /\ i = Len(Left(s, ready)) + 1 /\ Written(s, emits) /\ queue'[s][i] = Entry /\ ~flush
         /\ \A i \in 1..Len(Left(s, ready)) : Left(s, ready)[i] = queue'[s][i] \/ flush
         /\ flush => queue'[s] = <<>>
         /\ ~flush => Len(queue'[s]) = IF Written(s, emits) THEN Len(Left(s, ready)) + 1 ELSE Len(Left(s, ready))
  <1>1. /\ queue'[s] = IF flush THEN <<>>
                       ELSE IF Written(s, emits) THEN Append(Left(s, ready), Entry) ELSE Left(s, ready)
        /\ Written(s, emits) => Entry \in Entries
    BY QueueMoves DEF Written
  <1>2. Left(s, ready) \in Seq(Entries) /\ Len(Left(s, ready)) \in Nat
    BY LeftQueue
  <1>3. Written(s, emits) =>
          /\ Len(Append(Left(s, ready), Entry)) = Len(Left(s, ready)) + 1
          /\ \A i \in 1..Len(Left(s, ready)) : Append(Left(s, ready), Entry)[i] = Left(s, ready)[i]
          /\ Append(Left(s, ready), Entry)[Len(Left(s, ready)) + 1] = Entry
    BY <1>1, <1>2, AppendProperties
  <1>4. CASE flush
    BY <1>1, <1>4, EmptySeq
  <1>5. CASE ~flush /\ ~Written(s, emits)
    BY <1>1, <1>2, <1>5
  <1>6. CASE ~flush /\ Written(s, emits)
    <2>1. queue'[s] = Append(Left(s, ready), Entry)
      BY <1>1, <1>6
    <2>2. \A i \in 1..(Len(Left(s, ready)) + 1) : i \in 1..Len(Left(s, ready)) \/ i = Len(Left(s, ready)) + 1
      BY <1>2
    <2> QED
      BY <1>2, <1>3, <1>6, <2>1, <2>2
  <1> QED
    BY <1>4, <1>5, <1>6

\* The number of the report a source reads or has read.
LEMMA SourceMoves ==
  ASSUME TInv, TInv', Capturing, NEW filled \in SUBSET Fillable, SourceCycle(filled, FALSE), MuxCycle,
         NEW k \in Sources
  PROVE  /\ source[k].n \in Nat /\ source'[k].n \in Nat
         /\ source'[k].n = source[k].n \/ source'[k].n = source[k].n + 1
         /\ source'[k].full => source'[k].n # 0
         /\ source'[k].full => \/ source[k].full /\ source'[k].n = source[k].n
                               \/ ~source[k].full /\ source'[k].n = source[k].n + 1
  <1>1. source[k] \in SourceType /\ source'[k] \in SourceType
    BY DEF TInv, Typed
  <1>2. source[k].n \in Nat /\ source'[k].n \in Nat
    <2>1. source[k].n \in 0..Len(ReportLengths) /\ source'[k].n \in 0..Len(ReportLengths)
      BY <1>1, SourceUpdate
    <2> QED
      BY <2>1, Lengths
  <1>3. source'[k].full => source'[k].n # 0
    BY DEF TInv, SourcesSound
  <1>4. CASE k # sel \/ ~Taken
    <2>1. IF k \in filled
          THEN ~source[k].full /\ source'[k].n = source[k].n + 1 /\ source'[k].full
          ELSE source'[k] = source[k]
      BY <1>4, Streams
    <2> QED
      BY <1>2, <1>3, <2>1
  <1>5. CASE k = sel /\ Taken
    <2>1. source[k].full /\ source'[k].n = source[k].n
      BY <1>5, Streams
    <2> QED
      BY <1>2, <1>3, <2>1
  <1> QED
    BY <1>4, <1>5

\* The numbers of a queue.
LEMMA Numbers ==
  ASSUME TInv, NEW s \in Slots, NEW i \in 1..Len(queue[s])
  PROVE  queue[s][i] \in Entries /\ queue[s][i].byte[2] \in Nat /\ queue[s][i].last \in BOOLEAN
  <1>1. queue[s] \in Seq(Entries)
    BY LeftQueue
  <1>2. queue[s][i] \in Entries
    BY <1>1, ElementOfSeq
  <1>3. queue[s][i].byte \in Bytes \ {Zero} /\ queue[s][i].last \in BOOLEAN
    BY <1>2 DEF Entries
  <1>4. queue[s][i].byte \in Nat \X Nat \X Nat
    BY <1>3 DEF Bytes
  <1> QED
    BY <1>2, <1>3, <1>4

\* The reports served, queued, held and offered keep their ages.
LEMMA AgesMoves ==
  ASSUME TInv, TInv', Capturing, Held, Unspliced, InStep, Ages,
         NEW filled \in SUBSET Fillable, SourceCycle(filled, FALSE), MuxCycle,
         NEW emits \in BOOLEAN, NEW flush \in BOOLEAN, NEW ready,
         emits => istate = "OUTPUT", EngineCycle(emits), RelayCycle(emits, flush, ready),
         ServedCycle(flush, ready)
  PROVE  Ages'
  <1> SUFFICES ASSUME NEW s \in Slots
               PROVE  /\ source'[s].full =>
                           /\ newest'[s] < source'[s].n
                           /\ \A i \in 1..Len(queue'[s]) : queue'[s][i].byte[2] < source'[s].n
                      /\ newest'[s] <= source'[s].n
                      /\ \A i \in 1..Len(queue'[s]) : queue'[s][i].byte[2] <= source'[s].n
                      /\ istate' \in {"MUTATE", "OUTPUT"} /\ s = captured_endpoint' /\ ~stationary' =>
                           /\ Number' <= source'[s].n /\ (source'[s].full => Number' < source'[s].n)
                           /\ Older(s, Number)'
    BY DEF Ages
  <1>1. /\ source[s].n \in Nat /\ source'[s].n \in Nat
        /\ source'[s].n = source[s].n \/ source'[s].n = source[s].n + 1
        /\ source'[s].full => source'[s].n # 0
        /\ source'[s].full => \/ source[s].full /\ source'[s].n = source[s].n
                              \/ ~source[s].full /\ source'[s].n = source[s].n + 1
    BY SourceMoves, Lengths
  <1>2. /\ source[s].full =>
             newest[s] < source[s].n /\ \A i \in 1..Len(queue[s]) : queue[s][i].byte[2] < source[s].n
        /\ newest[s] <= source[s].n
        /\ \A i \in 1..Len(queue[s]) : queue[s][i].byte[2] <= source[s].n
        /\ istate \in {"MUTATE", "OUTPUT"} /\ s = captured_endpoint /\ ~stationary =>
             /\ Number <= source[s].n /\ (source[s].full => Number < source[s].n)
             /\ Older(s, Number)
    BY DEF Ages
  <1>3. newest[s] \in Nat /\ newest'[s] \in Nat
    BY DEF TInv, Typed, ServedTyped
  <1>4. \/ newest'[s] = newest[s]
        \/ 1 \in 1..Len(queue[s]) /\ newest'[s] = queue[s][1].byte[2] /\ queue[s][1].last
    BY ServedMoves, LeftQueue
  <1>5. \A i \in 1..Len(Left(s, ready)) : \E j \in 1..Len(queue[s]) : Left(s, ready)[i] = queue[s][j]
    BY LeftQueue
  <1>6. \A i \in 1..Len(queue'[s]) :
          \/ \E j \in 1..Len(queue[s]) : queue'[s][i] = queue[s][j]
          \/ Written(s, emits) /\ queue'[s][i] = Entry
    BY <1>5, EntryMoves
  <1>7. \A j \in 1..Len(queue[s]) : queue[s][j].byte[2] \in Nat
    BY Numbers
  <1>8. Written(s, emits) =>
          /\ istate = "OUTPUT" /\ s = captured_endpoint /\ emits
          /\ Entry.byte[2] = Number /\ Number \in Nat /\ Entry.last = output_last
          /\ Number = 0 \/ ~stationary
    <2> HAVE Written(s, emits)
    <2>1. s = captured_endpoint
      BY Lengths DEF Written, Bucket
    <2> QED
      BY <2>1, EntrySound DEF Written
  <1>9. source'[s].full => /\ newest'[s] < source'[s].n
                           /\ \A i \in 1..Len(queue'[s]) : queue'[s][i].byte[2] < source'[s].n
    <2> HAVE source'[s].full
    <2>1. newest'[s] < source'[s].n
      BY <1>1, <1>2, <1>3, <1>4, <1>7
    <2>2. \A j \in 1..Len(queue[s]) : queue[s][j].byte[2] < source'[s].n
      BY <1>1, <1>2, <1>7
    <2>3. Written(s, emits) => Entry.byte[2] < source'[s].n
      BY <1>1, <1>2, <1>8
    <2> QED
      BY <1>6, <2>1, <2>2, <2>3
  <1>10. newest'[s] <= source'[s].n
    BY <1>1, <1>2, <1>3, <1>4, <1>7
  <1>11. \A i \in 1..Len(queue'[s]) : queue'[s][i].byte[2] <= source'[s].n
    <2>1. \A j \in 1..Len(queue[s]) : queue[s][j].byte[2] <= source'[s].n
      BY <1>1, <1>2, <1>7
    <2>2. Written(s, emits) => Entry.byte[2] <= source'[s].n
      BY <1>1, <1>2, <1>8
    <2> QED
      BY <1>6, <2>1, <2>2
  <1>12. ASSUME istate' \in {"MUTATE", "OUTPUT"}, s = captured_endpoint', ~stationary'
         PROVE  /\ Number' <= source'[s].n /\ (source'[s].full => Number' < source'[s].n)
                /\ newest'[s] < Number'
                /\ \A i \in 1..Len(queue'[s]) :
                     \/ queue'[s][i].byte[2] < Number'
                     \/ queue'[s][i].byte[2] = Number' /\ ~queue'[s][i].last
    <2>1. \/ /\ Taken /\ last /\ ~emits
             /\ captured_endpoint' = sel /\ Number' = source[sel].n
          \/ /\ ~Taken /\ istate \in {"MUTATE", "OUTPUT"} /\ ~stationary
             /\ captured_endpoint' = captured_endpoint /\ Number' = Number
             /\ emits => ~output_last
      BY <1>12, HeldNext
    <2>2. CASE Taken /\ last /\ ~emits /\ captured_endpoint' = sel /\ Number' = source[sel].n
      <3>1. s = sel /\ Number' = source[s].n
        BY <1>12, <2>2
      <3>2. source[s].full /\ ~source'[s].full /\ source'[s].n = source[s].n
        BY <2>2, <3>1, Streams
      <3>3. newest'[s] < source[s].n
        BY <1>2, <1>3, <1>4, <1>7, <3>2
      <3>4. \A i \in 1..Len(queue'[s]) : queue'[s][i].byte[2] < source[s].n
        BY <1>2, <1>6, <2>2, <3>2 DEF Written
      <3> QED
        BY <1>1, <3>1, <3>2, <3>3, <3>4
    <2>3. CASE /\ ~Taken /\ istate \in {"MUTATE", "OUTPUT"} /\ ~stationary
               /\ captured_endpoint' = captured_endpoint /\ Number' = Number
               /\ emits => ~output_last
      <3>1. /\ Number <= source[s].n /\ (source[s].full => Number < source[s].n)
            /\ Older(s, Number) /\ Number' = Number
        BY <1>2, <1>12, <2>3
      <3>2. Number \in Nat
        BY <2>3, HeldForm, Lengths DEF Holding, HeldReport
      <3>3. Number <= source'[s].n /\ (source'[s].full => Number < source'[s].n)
        BY <1>1, <3>1, <3>2
      <3>4. newest'[s] < Number
        BY <1>3, <1>4, <1>7, <3>1, <3>2 DEF Older
      <3>5. ASSUME NEW i \in 1..Len(queue'[s])
            PROVE  \/ queue'[s][i].byte[2] < Number
                   \/ queue'[s][i].byte[2] = Number /\ ~queue'[s][i].last
        <4>1. CASE \E j \in 1..Len(queue[s]) : queue'[s][i] = queue[s][j]
          BY <3>1, <4>1 DEF Older
        <4>2. CASE Written(s, emits) /\ queue'[s][i] = Entry
          BY <1>8, <2>3, <4>2
        <4> QED
          BY <1>6, <4>1, <4>2
      <3> QED
        BY <3>1, <3>3, <3>4, <3>5
    <2> QED
      BY <2>1, <2>2, <2>3
  <1>13. ASSUME istate' \in {"MUTATE", "OUTPUT"}, s = captured_endpoint', ~stationary'
         PROVE  Older(s, Number)'
    BY <1>12, <1>13 DEF Older
  <1> QED
    BY <1>9, <1>10, <1>11, <1>12, <1>13

\* The end of a stream is where it was, or the byte just written.
LEMMA NewestMoves ==
  ASSUME TInv, NEW emits \in BOOLEAN, NEW flush \in BOOLEAN, NEW ready,
         emits => istate = "OUTPUT", RelayCycle(emits, flush, ready), ServedCycle(flush, ready), NEW s \in Slots
  PROVE  /\ flush => Newest(s)' = NothingServed
         /\ ~flush /\ Written(s, emits) => Newest(s)' = Entry
         /\ ~flush /\ ~Written(s, emits) => Newest(s)' = Newest(s)
         /\ ~flush => (IF Left(s, ready) = <<>> THEN served'[s] ELSE Left(s, ready)[Len(Left(s, ready))]) = Newest(s)
  <1>1. /\ queue'[s] = IF flush THEN <<>>
                       ELSE IF Written(s, emits) THEN Append(Left(s, ready), Entry) ELSE Left(s, ready)
        /\ Written(s, emits) => Entry \in Entries
    BY QueueMoves DEF Written
  <1>2. served'[s] = IF flush THEN NothingServed ELSE IF dequeue(s, ready) THEN queue[s][1] ELSE served[s]
    BY ServedMoves
  <1>3. Left(s, ready) \in Seq(Entries) /\ Len(Left(s, ready)) \in Nat /\ queue[s] \in Seq(Entries)
    BY LeftQueue
  <1>4. Newest(s)' = IF queue'[s] = <<>> THEN served'[s] ELSE queue'[s][Len(queue'[s])]
    BY DEF Newest
  <1>5. flush => Newest(s)' = NothingServed
    BY <1>1, <1>2, <1>4
  <1>6. ~flush /\ Written(s, emits) => Newest(s)' = Entry
    <2> HAVE ~flush /\ Written(s, emits)
    <2>1. /\ Append(Left(s, ready), Entry) # <<>>
          /\ Len(Append(Left(s, ready), Entry)) = Len(Left(s, ready)) + 1
          /\ Append(Left(s, ready), Entry)[Len(Left(s, ready)) + 1] = Entry
      BY <1>1, <1>3, AppendProperties
    <2> QED
      BY <1>1, <1>4, <2>1
  <1>7. ~flush => (IF Left(s, ready) = <<>> THEN served'[s] ELSE Left(s, ready)[Len(Left(s, ready))]) = Newest(s)
    <2> HAVE ~flush
    <2>1. CASE ~dequeue(s, ready)
      BY <1>2, <2>1, LeftQueue DEF Newest
    <2>2. CASE dequeue(s, ready) /\ Left(s, ready) = <<>>
      <3>1. Len(Left(s, ready)) = 0
        BY <2>2, EmptySeq
      <3>2. Len(queue[s]) = 1 /\ queue[s] # <<>>
        <4>1. /\ Len(Left(s, ready)) = Len(queue[s]) - 1 /\ queue[s] # <<>>
              /\ Len(queue[s]) \in Nat
          BY <2>2, LeftQueue
        <4> QED
          BY <3>1, <4>1
      <3> QED
        BY <1>2, <2>2, <3>2 DEF Newest
    <2>3. CASE dequeue(s, ready) /\ Left(s, ready) # <<>>
      <3>1. Len(Left(s, ready)) # 0
        BY <1>3, <2>3, EmptySeq
      <3>2. Len(Left(s, ready)) \in 1..Len(Left(s, ready))
        BY <1>3, <3>1
      <3>3. /\ Left(s, ready)[Len(Left(s, ready))] = queue[s][Len(Left(s, ready)) + 1]
            /\ Len(queue[s]) = Len(Left(s, ready)) + 1 /\ queue[s] # <<>>
        BY <1>3, <2>3, <3>2, LeftQueue
      <3> QED
        BY <2>3, <3>3 DEF Newest
    <2> QED
      BY <2>1, <2>2, <2>3
  <1>8. ~flush /\ ~Written(s, emits) => Newest(s)' = Newest(s)
    BY <1>1, <1>4, <1>7
  <1> QED
    BY <1>5, <1>6, <1>7, <1>8

LEMMA EndsMoves ==
  ASSUME TInv, Held, Unspliced, InStep, Ends,
         NEW emits \in BOOLEAN, NEW flush \in BOOLEAN, NEW ready,
         emits => istate = "OUTPUT", EngineCycle(emits), RelayCycle(emits, flush, ready),
         ServedCycle(flush, ready)
  PROVE  Ends'
  <1> SUFFICES ASSUME NEW s \in Slots
               PROVE  IF in_report'[s] /\ accepting'[s]
                      THEN ~Newest(s)'.last /\ Newest(s)'.byte = buffer'[output_index' - 1]
                      ELSE Newest(s)'.last = TRUE
    BY DEF Ends
  <1>1. /\ s \in Buckets
        /\ in_report'[s] = IF emits /\ s = Bucket(captured_endpoint) THEN ~output_last ELSE in_report[s]
        /\ accepting'[s] = (~flush /\ IF emits /\ s = Bucket(captured_endpoint) THEN taking(s) ELSE accepting[s])
    BY Admitted DEF Buckets
  <1>2. in_report[s] => emits /\ s = Bucket(captured_endpoint)
    BY <1>1, OutputMoves DEF InStep
  <1>3. IF in_report[s] /\ accepting[s]
        THEN ~Newest(s).last /\ Newest(s).byte = buffer[output_index - 1]
        ELSE Newest(s).last = TRUE
    BY DEF Ends
  <1>4. CASE flush
    <2>1. ~(in_report'[s] /\ accepting'[s])
      BY <1>1, <1>4
    <2>2. Newest(s)'.last = TRUE
      <3>1. Newest(s)' = NothingServed
        BY <1>4, NewestMoves
      <3>2. NothingServed.last = TRUE
        BY DEF NothingServed
      <3> QED
        BY <3>1, <3>2
    <2> QED
      BY <2>1, <2>2
  <1>5. CASE ~flush /\ Written(s, emits)
    <2>1. /\ emits /\ s = Bucket(captured_endpoint) /\ taking(s)
          /\ Newest(s)' = Entry
      BY <1>5, NewestMoves DEF Written
    <2>2. Entry.byte = buffer[output_index] /\ Entry.last = output_last
      BY <2>1, EntrySound
    <2>3. in_report'[s] /\ accepting'[s] <=> ~output_last
      BY <1>1, <1>5, <2>1
    <2>4. ~output_last => buffer'[output_index' - 1] = buffer[output_index]
      <3> HAVE ~output_last
      <3>1. output_index' = output_index + 1 /\ buffer' = buffer /\ output_index \in Nat
        BY <2>1, OutputMoves, Width DEF TInv, Typed, BufferTyped
      <3>2. output_index' - 1 = output_index
        BY <3>1
      <3> QED
        BY <3>1, <3>2
    <2>5. output_last \in BOOLEAN
      BY DEF output_last
    <2> QED
      BY <2>1, <2>2, <2>3, <2>4, <2>5
  <1>6. CASE ~flush /\ ~Written(s, emits)
    <2>1. Newest(s)' = Newest(s)
      BY <1>6, NewestMoves
    <2>2. emits /\ s = Bucket(captured_endpoint) => ~taking(s)
      BY <1>6 DEF Written
    <2>3. ~(in_report'[s] /\ accepting'[s]) /\ ~(in_report[s] /\ accepting[s])
      BY <1>1, <1>2, <2>2 DEF taking
    <2> QED
      BY <1>3, <2>1, <2>3
  <1> QED
    BY <1>4, <1>5, <1>6

\* What is before entry i of queue s.
Before(s, i) == IF i = 1 THEN served[s] ELSE queue[s][i - 1]

LEMMA ChainedMoves ==
  ASSUME TInv, Held, Unspliced, InStep, Ages, Ends, Chained,
         NEW emits \in BOOLEAN, NEW flush \in BOOLEAN, NEW ready,
         emits => istate = "OUTPUT", EngineCycle(emits), RelayCycle(emits, flush, ready),
         ServedCycle(flush, ready)
  PROVE  Chained'
  <1> SUFFICES ASSUME NEW s \in Slots, NEW i \in 1..Len(queue'[s])
               PROVE  /\ Follows(s, IF i = 1 THEN served'[s] ELSE queue'[s][i - 1], queue'[s][i])
                      /\ queue'[s][i].byte[2] # 0 =>
                           /\ newest'[s] < queue'[s][i].byte[2]
                           /\ \A j \in 1..(i - 1) :
                                \/ queue'[s][j].byte[2] < queue'[s][i].byte[2]
                                \/ queue'[s][j].byte[2] = queue'[s][i].byte[2] /\ ~queue'[s][j].last
    BY DEF Chained, Follows, InOrder
  <1>1. /\ ~flush
        /\ \A j \in 1..Len(Left(s, ready)) : queue'[s][j] = Left(s, ready)[j]
        /\ \/ i \in 1..Len(Left(s, ready)) /\ queue'[s][i] = Left(s, ready)[i]
           \/ i = Len(Left(s, ready)) + 1 /\ Written(s, emits) /\ queue'[s][i] = Entry
    BY EntryMoves, EmptySeq
  <1>2. /\ Left(s, ready) \in Seq(Entries) /\ Len(Left(s, ready)) \in Nat
        /\ Len(queue[s]) \in Nat /\ i \in Nat /\ i >= 1
    BY LeftQueue
  <1>3. served'[s] = IF dequeue(s, ready) THEN queue[s][1] ELSE served[s]
    BY <1>1, ServedMoves
  <1>4. newest'[s] = IF dequeue(s, ready) /\ queue[s][1].last /\ queue[s][1].byte[2] # 0
                     THEN queue[s][1].byte[2] ELSE newest[s]
    BY ServedMoves
  <1>5. \A j \in 1..Len(queue[s]) : queue[s][j].byte[2] \in Nat
    BY Numbers
  <1>6. newest[s] \in Nat
    BY DEF TInv, Typed, ServedTyped
  <1>7. \A j \in 1..Len(queue[s]) :
          /\ Follows(s, IF j = 1 THEN served[s] ELSE queue[s][j - 1], queue[s][j])
          /\ queue[s][j].byte[2] # 0 =>
               /\ newest[s] < queue[s][j].byte[2]
               /\ \A k \in 1..(j - 1) :
                    \/ queue[s][k].byte[2] < queue[s][j].byte[2]
                    \/ queue[s][k].byte[2] = queue[s][j].byte[2] /\ ~queue[s][k].last
    BY DEF Chained, InOrder
  <1>8. CASE i \in 1..Len(Left(s, ready)) /\ queue'[s][i] = Left(s, ready)[i] /\ ~dequeue(s, ready)
    <2>1. Left(s, ready) = queue[s]
      BY <1>8, LeftQueue
    <2>2. \A j \in 1..i : queue'[s][j] = queue[s][j]
      BY <1>1, <1>2, <1>8, <2>1
    <2>3. (IF i = 1 THEN served'[s] ELSE queue'[s][i - 1]) = IF i = 1 THEN served[s] ELSE queue[s][i - 1]
      BY <1>2, <1>3, <1>8, <2>2
    <2>4. Follows(s, IF i = 1 THEN served'[s] ELSE queue'[s][i - 1], queue'[s][i])
      BY <1>7, <1>8, <2>1, <2>2, <2>3
    <2>5. i \in 1..Len(queue[s]) /\ queue'[s][i] = queue[s][i] /\ newest'[s] = newest[s]
      BY <1>4, <1>8, <2>1
    <2>6. \A j \in 1..(i - 1) : queue'[s][j] = queue[s][j]
      BY <1>2, <2>2
    <2>7. ASSUME queue[s][i].byte[2] # 0
          PROVE  /\ newest[s] < queue[s][i].byte[2]
                 /\ \A j \in 1..(i - 1) :
                      \/ queue[s][j].byte[2] < queue[s][i].byte[2]
                      \/ queue[s][j].byte[2] = queue[s][i].byte[2] /\ ~queue[s][j].last
      BY <1>7, <2>5, <2>7
    <2> QED
      BY <2>4, <2>5, <2>6, <2>7
  <1>9. CASE i \in 1..Len(Left(s, ready)) /\ queue'[s][i] = Left(s, ready)[i] /\ dequeue(s, ready)
    <2>1. /\ \A j \in 1..Len(Left(s, ready)) : j + 1 \in 1..Len(queue[s]) /\ Left(s, ready)[j] = queue[s][j + 1]
          /\ 1 \in 1..Len(queue[s])
      BY <1>2, <1>9, LeftQueue
    <2>2. \A j \in 1..i : queue'[s][j] = queue[s][j + 1]
      BY <1>1, <1>2, <1>9, <2>1
    <2>3. (IF i = 1 THEN served'[s] ELSE queue'[s][i - 1]) = queue[s][i]
      <3>1. CASE i = 1
        BY <1>3, <1>9, <3>1
      <3>2. CASE i # 1
        <4>1. i - 1 \in 1..i /\ (i - 1) + 1 = i
          BY <1>2, <3>2
        <4> QED
          BY <2>2, <3>2, <4>1
      <3> QED
        BY <3>1, <3>2
    <2>4. i + 1 \in 1..Len(queue[s]) /\ i + 1 # 1 /\ (i + 1) - 1 = i
      BY <1>2, <1>9, <2>1
    <2>5. Follows(s, queue[s][i], queue[s][i + 1])
      BY <1>7, <2>4
    <2>6. Follows(s, IF i = 1 THEN served'[s] ELSE queue'[s][i - 1], queue'[s][i])
      BY <1>2, <2>2, <2>3, <2>5
    <2>7. ASSUME queue'[s][i].byte[2] # 0
          PROVE  /\ newest'[s] < queue'[s][i].byte[2]
                 /\ \A j \in 1..(i - 1) :
                      \/ queue'[s][j].byte[2] < queue'[s][i].byte[2]
                      \/ queue'[s][j].byte[2] = queue'[s][i].byte[2] /\ ~queue'[s][j].last
      <3>1. queue'[s][i] = queue[s][i + 1]
        BY <1>2, <2>2
      <3>2. /\ newest[s] < queue[s][i + 1].byte[2]
            /\ \A k \in 1..i :
                 \/ queue[s][k].byte[2] < queue[s][i + 1].byte[2]
                 \/ queue[s][k].byte[2] = queue[s][i + 1].byte[2] /\ ~queue[s][k].last
        BY <1>7, <2>4, <2>7, <3>1
      <3>3. \/ queue[s][1].byte[2] < queue[s][i + 1].byte[2]
            \/ queue[s][1].byte[2] = queue[s][i + 1].byte[2] /\ ~queue[s][1].last
        BY <1>2, <3>2
      <3>4. newest'[s] < queue'[s][i].byte[2]
        BY <1>4, <1>5, <1>6, <2>1, <2>4, <3>1, <3>2, <3>3
      <3>5. \A j \in 1..(i - 1) : j + 1 \in 1..i /\ queue'[s][j] = queue[s][j + 1]
        BY <1>2, <2>2
      <3> QED
        BY <3>1, <3>2, <3>4, <3>5
    <2> QED
      BY <2>6, <2>7
  <1>10. CASE i = Len(Left(s, ready)) + 1 /\ Written(s, emits) /\ queue'[s][i] = Entry
    <2>1. /\ istate = "OUTPUT" /\ emits /\ s = Bucket(captured_endpoint) /\ s = captured_endpoint /\ taking(s)
          /\ s \in Buckets
      BY <1>10, Lengths DEF Written, Bucket, Buckets
    <2>2. (IF i = 1 THEN served'[s] ELSE queue'[s][i - 1]) = Newest(s)
      <3>1. (IF Left(s, ready) = <<>> THEN served'[s] ELSE Left(s, ready)[Len(Left(s, ready))]) = Newest(s)
        BY <1>1, NewestMoves
      <3>2. CASE i = 1
        <4>1. Left(s, ready) = <<>>
          BY <1>2, <1>10, <3>2, EmptySeq
        <4> QED
          BY <3>1, <3>2, <4>1
      <3>3. CASE i # 1
        <4>1. Len(Left(s, ready)) \in 1..Len(Left(s, ready)) /\ i - 1 = Len(Left(s, ready))
          BY <1>2, <1>10, <3>3
        <4>2. Left(s, ready) # <<>>
          BY <4>1, EmptySeq
        <4> QED
          BY <1>1, <3>1, <3>3, <4>1, <4>2
      <3> QED
        BY <3>2, <3>3
    <2>3. /\ Entry.last = output_last /\ Entry.byte # Zero
          /\ Entry.byte[1] = s /\ Entry.byte[2] = Number /\ Entry.byte[3] = output_index + 1
          /\ Number \in Nat
          /\ Number # 0 => ~stationary /\ (output_last <=> output_index + 1 = ReportLengths[Number])
          /\ output_index # 0 => buffer[output_index - 1] = <<s, Number, output_index>>
      BY <2>1, EntrySound
    <2>4. IF Newest(s).last THEN output_index = 0
          ELSE Newest(s).byte = <<s, Number, output_index>>
      <3>1. in_report[s] <=> output_started
        BY <2>1 DEF InStep
      <3>2. output_started <=> output_index # 0
        BY <2>1 DEF InStep
      <3>3. CASE in_report[s] /\ accepting[s]
        BY <2>3, <3>1, <3>2, <3>3 DEF Ends
      <3>4. CASE ~(in_report[s] /\ accepting[s])
        BY <2>1, <3>1, <3>2, <3>4 DEF Ends, taking
      <3> QED
        BY <3>3, <3>4
    <2>5. Follows(s, Newest(s), Entry)
      <3>1. output_index \in Nat
        BY Width DEF TInv, Typed, BufferTyped
      <3>2. Entry.byte[2] # 0 => Entry.last = (Entry.byte[3] = ReportLengths[Entry.byte[2]])
        BY <2>3 DEF output_last
      <3>3. IF Newest(s).last THEN Entry.byte[3] = 1
            ELSE Entry.byte[2] = Newest(s).byte[2] /\ Entry.byte[3] = Newest(s).byte[3] + 1
        BY <2>3, <2>4, <3>1
      <3> QED
        BY <2>3, <3>2, <3>3 DEF Follows
    <2>6. ASSUME Number # 0
          PROVE  /\ newest'[s] < Number
                 /\ \A j \in 1..(i - 1) :
                      queue'[s][j].byte[2] < Number \/ (queue'[s][j].byte[2] = Number /\ ~queue'[s][j].last)
      <3>1. newest[s] < Number
        BY <2>1, <2>3, <2>6 DEF Ages, Older
      <3>2. \A k \in 1..Len(queue[s]) :
              queue[s][k].byte[2] < Number \/ (queue[s][k].byte[2] = Number /\ ~queue[s][k].last)
        BY <2>1, <2>3, <2>6 DEF Ages, Older
      <3>3. dequeue(s, ready) => 1 \in 1..Len(queue[s])
        BY <1>2, LeftQueue
      <3>4. newest'[s] < Number
        BY <1>4, <1>5, <1>6, <2>3, <3>1, <3>2, <3>3
      <3>5. \A j \in 1..(i - 1) : \E k \in 1..Len(queue[s]) : queue'[s][j] = queue[s][k]
        <4>1. \A j \in 1..Len(Left(s, ready)) : \E k \in 1..Len(queue[s]) : Left(s, ready)[j] = queue[s][k]
          BY LeftQueue
        <4>2. i - 1 = Len(Left(s, ready))
          BY <1>2, <1>10
        <4> QED
          BY <1>1, <4>1, <4>2
      <3> QED
        BY <3>2, <3>4, <3>5
    <2> QED
      BY <1>10, <2>2, <2>3, <2>5, <2>6
  <1> QED
    BY <1>1, <1>8, <1>9, <1>10

\* Until the device is lost every cycle keeps the path whole.
LEMMA WholeMoves ==
  ASSUME TInv, TInv', Whole, Next, detaches' = 0
  PROVE  Whole'
  <1>1. PICK filled \in SUBSET Fillable, detach \in BOOLEAN, emits \in BOOLEAN, flush \in BOOLEAN,
             ready \in SUBSET {s \in Slots : head_valid[s]} :
          (emits => istate = "OUTPUT") /\ Cycle(filled, detach, emits, flush, ready)
    BY DEF Next
  <1>2. detaches \in Nat
    BY PathAssumption DEF TInv, Typed
  <1>3. ~detach
    BY <1>1, <1>2 DEF Cycle
  <1>4. SourceCycle(filled, FALSE)
    BY <1>1, <1>3 DEF Cycle, SourceCycle
  <1>5. /\ MuxCycle /\ EngineCycle(emits) /\ RelayCycle(emits, flush, ready) /\ ServedCycle(flush, ready)
        /\ emits => istate = "OUTPUT"
    BY <1>1 DEF Cycle
  <1>6. Unspliced /\ InStep /\ Capturing /\ Held /\ Ages /\ Ends /\ Chained
    BY DEF Whole
  <1>7. Capturing'
    BY <1>4, <1>5, <1>6, CapturingMoves
  <1>8. Held'
    BY <1>4, <1>5, <1>6, HeldMoves
  <1>9. Unspliced'
    BY <1>8, Lengths DEF Held, Unspliced
  <1>10. InStep'
    BY <1>5, <1>6, InStepMoves
  <1>11. Ages'
    BY <1>4, <1>5, <1>6, AgesMoves
  <1>12. Ends'
    BY <1>5, <1>6, EndsMoves
  <1>13. Chained'
    BY <1>5, <1>6, ChainedMoves
  <1> QED
    BY <1>7, <1>8, <1>9, <1>10, <1>11, <1>12, <1>13 DEF Whole

\* A path that is whole serves whole reports.
LEMMA WholeServes ==
  ASSUME TInv, detaches = 0 => Whole
  PROVE  WholeReports
  <1> SUFFICES ASSUME detaches = 0, NEW s \in Slots, NEW i \in 1..Len(queue[s])
               PROVE  /\ Follows(s, (<<served[s]>> \o queue[s])[i], (<<served[s]>> \o queue[s])[i + 1])
                      /\ InOrder(s, i)
    BY DEF WholeReports
  <1>1. queue[s] \in Seq(Entries) /\ served[s] \in Entries /\ Len(queue[s]) \in Nat /\ i \in Nat /\ i >= 1
    BY LeftQueue DEF TInv, Typed, ServedTyped
  <1>2. /\ Follows(s, IF i = 1 THEN served[s] ELSE queue[s][i - 1], queue[s][i])
        /\ InOrder(s, i)
    BY DEF Whole, Chained
  <1>3. /\ <<served[s]>> \in Seq(Entries) /\ Len(<<served[s]>>) = 1 /\ <<served[s]>>[1] = served[s]
    BY <1>1
  <1>4. \A j \in 1..(Len(<<served[s]>>) + Len(queue[s])) :
          (<<served[s]>> \o queue[s])[j] = IF j <= Len(<<served[s]>>) THEN <<served[s]>>[j]
                                          ELSE queue[s][j - Len(<<served[s]>>)]
    BY <1>1, <1>3, ConcatProperties
  <1>5. (<<served[s]>> \o queue[s])[i + 1] = queue[s][i]
    <2>1. i + 1 \in 1..(1 + Len(queue[s])) /\ ~(i + 1 <= 1) /\ (i + 1) - 1 = i
      BY <1>1
    <2> QED
      BY <1>3, <1>4, <2>1
  <1>6. (<<served[s]>> \o queue[s])[i] = IF i = 1 THEN served[s] ELSE queue[s][i - 1]
    <2>1. i \in 1..(1 + Len(queue[s])) /\ (i <= 1 <=> i = 1)
      BY <1>1
    <2> QED
      BY <1>3, <1>4, <2>1
  <1> QED
    BY <1>2, <1>5, <1>6

\* Until the device is lost, each endpoint of the clone serves whole reports of
\* its own source, in order and none twice, whatever is injected between them,
\* dropped for want of room or flushed with the PC's session (relay.py,
\* injection.py, host.py).
THEOREM ReportsStayWhole == Spec => [](detaches = 0 => Whole) /\ []WholeReports
  <1>1. Init => Whole
    <2> HAVE Init
    <2>1. TInv
      BY InitSound
    <2>2. /\ istate = "CAPTURE" /\ report_length = 0 /\ ~Holding /\ locked = FALSE
          /\ \A s \in Slots : queue[s] = <<>> /\ Len(queue[s]) = 0 /\ served[s] = NothingServed /\ newest[s] = 0
          /\ \A b \in Buckets : in_report[b] = FALSE
          /\ \A k \in Sources : source[k].n = 0 /\ source[k].index = 0 /\ source[k].full = FALSE
          /\ \A k \in Endpoints : template[k] = 0
      BY EmptySeq DEF Init, BufferInit, RelayInit, MuxInit, Holding
    <2>3. Slots \subseteq Sources /\ BufferBytes \in Nat /\ \A s \in Slots : s \in Buckets
      BY Lengths DEF Buckets
    <2>4. Unspliced /\ InStep
      BY <2>2, <2>3 DEF Unspliced, InStep
    <2>5. Capturing /\ Held
      BY <2>2, <2>3 DEF Capturing, Held
    <2>6. Ages
      BY <2>2, <2>3 DEF Ages
    <2>7. NothingServed.last = TRUE
      BY DEF NothingServed
    <2>8. Ends /\ Chained
      BY <2>2, <2>3, <2>7 DEF Ends, Chained, Newest
    <2> QED
      BY <2>4, <2>5, <2>6, <2>8 DEF Whole
  <1>2. TInv /\ TInv' /\ (detaches = 0 => Whole) /\ [Next]_vars => (detaches = 0 => Whole)'
    <2> SUFFICES ASSUME TInv, TInv', detaches = 0 => Whole, [Next]_vars, detaches' = 0
                 PROVE  Whole'
      OBVIOUS
    <2>1. CASE UNCHANGED vars
      <3>1. Whole
        BY <2>1 DEF vars
      <3>2. Unspliced' /\ InStep' /\ Capturing' /\ Held'
        BY <2>1, <3>1 DEF vars, muxVars, relayVars, bufferVars, Whole, Unspliced, InStep, Bucket, Capturing,
           Held, Holding, Number
      <3>3. Ages'
        BY <2>1, <3>1 DEF vars, relayVars, bufferVars, Whole, Ages, Older, Number
      <3>4. Ends' /\ Chained'
        BY <2>1, <3>1 DEF vars, relayVars, bufferVars, Whole, Ends, Newest, Chained, Follows, InOrder
      <3> QED
        BY <3>2, <3>3, <3>4 DEF Whole
    <2>2. CASE Next
      <3>1. detaches = 0
        <4>1. detaches \in Nat /\ (detaches' = detaches \/ detaches' = detaches + 1)
          BY <2>2, PathAssumption DEF Next, Cycle, TInv, Typed
        <4> QED
          BY <4>1
      <3> QED
        BY <2>2, <3>1, WholeMoves
    <2> QED
      BY <2>1, <2>2
  <1>3. TInv /\ (detaches = 0 => Whole) => WholeReports
    BY WholeServes
  <1> QED
    BY <1>1, <1>2, <1>3, PathInvariant, PTL DEF Spec

\* Until the device is lost, no queue of the relay overflows: no report is
\* spliced, so none is longer than the buffer.
THEOREM NoQueueOverflowsWithDevice == Spec => [](detaches = 0 => TypeOK)
  <1>1. Init => Room /\ NoOverflow
    <2> HAVE Init
    <2>1. /\ \A b \in Buckets : in_report[b] = FALSE
          /\ \A s \in Slots : queue[s] = <<>> /\ s \in Buckets
      BY DEF Init, RelayInit, Buckets
    <2> QED
      BY <2>1, Lengths, EmptySeq DEF Room, NoOverflow
  <1>2. TInv /\ (detaches = 0 => Whole) /\ (detaches = 0 => Room /\ NoOverflow) /\ [Next]_vars
        => (detaches = 0 => Room /\ NoOverflow)'
    <2> SUFFICES ASSUME TInv, detaches = 0 => Whole, detaches = 0 => Room /\ NoOverflow, [Next]_vars,
                        detaches' = 0
                 PROVE  Room' /\ NoOverflow'
      OBVIOUS
    <2>1. CASE UNCHANGED vars
      BY <2>1 DEF vars, relayVars, bufferVars, Room, NoOverflow
    <2>2. CASE Next
      <3>1. PICK filled \in SUBSET Fillable, detach \in BOOLEAN, emits \in BOOLEAN, flush \in BOOLEAN,
                 ready \in SUBSET {s \in Slots : head_valid[s]} :
              (emits => istate = "OUTPUT") /\ Cycle(filled, detach, emits, flush, ready)
        BY <2>2 DEF Next
      <3>2. detaches = 0
        <4>1. detaches \in Nat /\ (detaches' = detaches \/ detaches' = detaches + 1)
          BY <3>1, PathAssumption DEF Cycle, TInv, Typed
        <4> QED
          BY <4>1
      <3>3. EngineCycle(emits) /\ RelayCycle(emits, flush, ready)
        BY <3>1 DEF Cycle
      <3> QED
        BY <3>1, <3>2, <3>3, RoomMoves DEF Whole
    <2> QED
      BY <2>1, <2>2
  <1>3. TInv /\ NoOverflow => TypeOK
    BY DEF TInv, Typed, MuxTyped, RelayTyped, BufferTyped, TypeOK, SourceType
  <1> QED
    BY <1>1, <1>2, <1>3, PathInvariant, ReportsStayWhole, PTL DEF Spec
=============================================================================
