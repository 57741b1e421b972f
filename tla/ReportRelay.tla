---------------------------- MODULE ReportRelay ----------------------------
(***************************************************************************)
(* relay.py, ReportRelay: one queue per endpoint the clone serves, read by *)
(* the endpoint's stream.  It never holds the injection engine off: a      *)
(* report that does not fit whole is dropped whole.                        *)
(*                                                                         *)
(* queue[s] is the ring from the byte the read port holds (when            *)
(* head_valid[s]) to the last one written: its length is levels[s].  An    *)
(* entry is a byte and its `last` bit.                                     *)
(***************************************************************************)
EXTENDS Naturals, Sequences

CONSTANTS
    Slots,               \* the endpoints bound to a queue
    Unmatched,           \* the bucket of all others
    FifoDepth,           \* fifo_depth
    MaxReportBytes       \* max_report_bytes

ASSUME RelayAssumption ==
    /\ Unmatched \notin Slots
    /\ FifoDepth \in Nat /\ MaxReportBytes \in Nat \ {0}
    /\ FifoDepth >= MaxReportBytes

VARIABLES queue, head_valid, in_report, accepting

relayVars == <<queue, head_valid, in_report, accepting>>

Buckets == Slots \cup {Unmatched}

RelayInit ==
    /\ queue = [s \in Slots |-> <<>>]
    /\ head_valid = [s \in Slots |-> FALSE]
    /\ in_report = [b \in Buckets |-> FALSE]
    /\ accepting = [b \in Buckets |-> FALSE]

Bucket(endpoint) == IF endpoint \in Slots THEN endpoint ELSE Unmatched

\* Mutant: a report is admitted while there is room for a byte.
admit_a_byte(b) == b \in Slots /\ Len(queue[b]) < FifoDepth

admit(b) == b \in Slots /\ Len(queue[b]) + MaxReportBytes <= FifoDepth

\* The byte of bucket b is written: it starts a report that fits, or goes on
\* with one that was admitted.
taking(b) == IF in_report[b] THEN accepting[b] ELSE admit(b)

dequeue(s, ready) == head_valid[s] /\ s \in ready

\* Mutant: a flush forgets that a report is under way.
AdmissionForgets(valid, b, last, flush) ==
    /\ in_report' = [c \in Buckets |->
          ~flush /\ (IF valid /\ c = b THEN ~last ELSE in_report[c])]
    /\ accepting' = [c \in Buckets |->
          ~flush /\ (IF valid /\ c = b THEN taking(b) ELSE accepting[c])]

\* in_report follows the bytes whether they are taken or not; a flush ends the
\* admission of a report under way, whose tail is then dropped.
Admission(valid, b, last, flush) ==
    /\ in_report' = [c \in Buckets |-> IF valid /\ c = b THEN ~last ELSE in_report[c]]
    /\ accepting' = [c \in Buckets |->
          ~flush /\ (IF valid /\ c = b THEN taking(b) ELSE accepting[c])]

\* The queues: `taken` is the slot written, `ready` the streams that take the
\* byte they are offered.
Queues(taken, entry, flush, ready) ==
    /\ queue' = [s \in Slots |->
          LET left == IF dequeue(s, ready) THEN Tail(queue[s]) ELSE queue[s]
          IN  IF flush THEN <<>>
              ELSE IF s \in taken THEN Append(left, entry) ELSE left]
    /\ head_valid' = [s \in Slots |->
          LET level == Len(queue[s])
          IN  /\ ~flush
              /\ IF dequeue(s, ready) THEN level > 1 ELSE level # 0]

\* One cycle: byte `entry` of a report of `endpoint` is offered when `valid`.
RelayStep(valid, endpoint, entry, flush, ready) ==
    LET b == Bucket(endpoint)
    IN  /\ Admission(valid, b, entry.last, flush)
        /\ Queues({s \in Slots : valid /\ s = b /\ taking(b)}, entry, flush, ready)
=============================================================================
