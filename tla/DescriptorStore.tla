-------------------------- MODULE DescriptorStore --------------------------
(***************************************************************************)
(* descriptors.py, DescriptorStore: the descriptors of the enumerated      *)
(* device, written by the enumerator and read by the clone and the         *)
(* exporter.  A store is a record; StoreStep is its next value after one   *)
(* cycle of the usb clock.                                                 *)
(*   directory     slot -> key, start and length; valid, the slots in use  *)
(*   memory        the payload RAM                                         *)
(*   capture       capture_active, capture_alloc_pending, ...              *)
(*   admin         the scan that capture and exporter take turns at        *)
(*   pending       export_pending, _slot; export, the answer to it         *)
(*   serve         the clone's own scan and its cached selection           *)
(*   owner_q       shared_owner_q: whether the shared port's last read was *)
(*                 for the clone; read_q, what it read                     *)
(*                                                                         *)
(* The ports lookup_*, device_lookup_* and copy_* have no requester in     *)
(* this design; they are left out.                                         *)
(***************************************************************************)
EXTENDS Integers, Sequences, FiniteSets

CONSTANTS
    Keys,                \* (type, index, wIndex) of a descriptor
    Slots,               \* DESCRIPTOR_ENTRY_COUNT
    StoreSize            \* DESCRIPTOR_STORE_SIZE

NoKey == "none"
NoByte == <<NoKey, 0, 0>>
NoRequest == <<>>        \* of the exporter: else <<slot>>
Entry == 0..(Slots - 1)

ASSUME StoreAssumption == {Slots, StoreSize} \subseteq Nat \ {0} /\ NoKey \notin Keys

NoCapture == [active |-> FALSE, alloc_pending |-> FALSE, allocated |-> FALSE,
              rejected |-> FALSE, overflow |-> FALSE, key |-> NoKey, base |-> 0,
              length |-> 0, slot |-> 0, match |-> {}, free |-> {}]
NoRecord == [key |-> NoKey, start |-> 0, length |-> 0]
NoAdmin == [state |-> "IDLE", slot |-> 0, primed |-> FALSE, key |-> NoKey,
            record |-> NoRecord]
NoExport == [valid |-> FALSE, key |-> NoKey, start |-> 0, length |-> 0, response |-> FALSE]
NoServe == [busy |-> FALSE, primed |-> FALSE, slot |-> 0, key |-> NoKey,
            selected |-> FALSE, found |-> FALSE, start |-> 0, length |-> 0,
            response |-> FALSE]

StoreOff ==
    [directory |-> [i \in Entry |-> NoRecord],
     valid |-> {}, memory |-> [a \in 0..(StoreSize - 1) |-> NoByte], allocator |-> 0,
     capture |-> NoCapture, admin |-> NoAdmin,
     pending |-> NoRequest, export |-> NoExport, serve |-> NoServe,
     owner_q |-> FALSE, read_q |-> NoByte]

(***************************************************************************)
(* The inputs of a cycle: a record with clear, start (a key or NoKey),     *)
(* data (a byte or NoByte), commit, abort; request, the exporter's or      *)
(* NoRequest; serve_request (a key or NoKey), serve_cancel, offset and     *)
(* read_enable.                                                            *)
(***************************************************************************)
Quiet ==
    [clear |-> FALSE, start |-> NoKey, data |-> NoByte, commit |-> FALSE,
     abort |-> FALSE, request |-> NoRequest,
     serve_request |-> NoKey, serve_cancel |-> FALSE, offset |-> 0,
     read_enable |-> FALSE]

capture_ready(s) ==
    /\ s.capture.active /\ s.capture.allocated
    /\ ~s.capture.rejected /\ ~s.capture.overflow
    /\ s.allocator < StoreSize

capture_commit_ok(s, x) ==
    /\ s.capture.active /\ s.capture.allocated
    /\ ~s.capture.rejected /\ ~s.capture.overflow
    /\ x.commit /\ ~x.clear

\* The exporter queues a request while a capture scans, not a second of its own.
export_ready(s, x) == ~x.clear /\ s.pending = NoRequest /\ s.admin.state # "EXPORT"

serve_ready(s, x) ==
    /\ ~x.clear /\ ~capture_commit_ok(s, x)
    /\ (~s.serve.busy /\ ~s.serve.selected) \/ x.serve_cancel

\* admin_record is the read port's register, admin_record_valid is live.
admin_matches(s) ==
    /\ s.admin.slot \in s.valid
    /\ s.admin.record.key = s.admin.key

serve_matches(s) ==
    /\ s.serve.slot \in s.valid
    /\ s.directory[s.serve.slot].key = s.serve.key

\* A match of this cycle is prefetched before it is selected.
serve_match_now(s) == s.serve.busy /\ s.serve.primed /\ serve_matches(s)

serve_hit(s) ==
    LET d == s.directory[s.serve.slot]
    IN  IF serve_match_now(s) THEN [found |-> TRUE, start |-> d.start, length |-> d.length]
        ELSE [found |-> s.serve.found, start |-> s.serve.start, length |-> s.serve.length]

serve_in_range(s, x) ==
    /\ (s.serve.selected /\ x.read_enable) \/ serve_match_now(s)
    /\ serve_hit(s).found /\ x.offset < serve_hit(s).length

\* What the clone sees of the shared port.
serve_data(s) == IF s.owner_q THEN s.read_q ELSE NoByte

-----------------------------------------------------------------------------
first(S) == CHOOSE i \in S : \A j \in S : i <= j

\* Mutant: a free slot is taken although the key has one.
ChosenFree(match, free) == first(IF free # {} THEN free ELSE match)

\* The slot of the key, or else the first free one.
Chosen(match, free) == first(IF match # {} THEN match ELSE free)

\* The capture, and the scan that gives it its slot.
Allocated(s) ==
    LET match == s.capture.match \cup (IF admin_matches(s) THEN {s.admin.slot} ELSE {})
        free == s.capture.free \cup (IF s.admin.slot \in s.valid THEN {} ELSE {s.admin.slot})
        full == match = {} /\ free = {}
    IN  IF s.admin.slot = Slots - 1
        THEN [s.capture EXCEPT !.allocated = TRUE, !.rejected = full, !.overflow = full,
                               !.slot = IF full THEN @ ELSE Chosen(match, free)]
        ELSE [s.capture EXCEPT !.match = match, !.free = free]

CaptureStep(s, x) ==
    LET c == s.capture
        begun == [NoCapture EXCEPT !.active = TRUE, !.alloc_pending = TRUE,
                      !.key = x.start, !.base = s.allocator]
        scanned == IF s.admin.state = "CAPTURE" /\ s.admin.primed THEN Allocated(s)
                   ELSE IF s.admin.state = "IDLE" /\ c.alloc_pending
                   THEN [c EXCEPT !.alloc_pending = FALSE, !.match = {}, !.free = {}]
                   ELSE c
        ended == [scanned EXCEPT !.active = FALSE, !.alloc_pending = FALSE,
                                 !.allocated = @ /\ ~c.allocated]
    IN  IF ~c.active THEN IF x.start # NoKey THEN begun ELSE c
        ELSE IF x.abort THEN [ended EXCEPT !.allocated = FALSE, !.rejected = FALSE,
                                           !.overflow = FALSE]
        ELSE IF x.commit THEN ended
        ELSE IF x.data # NoByte /\ c.allocated
             THEN IF capture_ready(s) THEN [c EXCEPT !.length = @ + 1]
                  ELSE [c EXCEPT !.overflow = TRUE]
        ELSE scanned

AllocatorStep(s, x) ==
    LET c == s.capture
    IN  IF ~c.active THEN s.allocator
        ELSE IF x.abort \/ (x.commit /\ ~capture_commit_ok(s, x)) THEN c.base
        ELSE IF ~x.commit /\ x.data # NoByte /\ capture_ready(s) THEN s.allocator + 1
        ELSE s.allocator

\* The directory and the payload RAM.
DirectoryStep(s, x) ==
    IF capture_commit_ok(s, x)
    THEN [s.directory EXCEPT ![s.capture.slot] =
            [key |-> s.capture.key, start |-> s.capture.base, length |-> s.capture.length]]
    ELSE s.directory

MemoryStep(s, x) ==
    IF x.data # NoByte /\ capture_ready(s)
    THEN [s.memory EXCEPT ![s.allocator] = x.data] ELSE s.memory

-----------------------------------------------------------------------------
\* The admin scan: one client at a time, the capture first.
AdminIdle(s) ==
    IF s.capture.alloc_pending
    THEN [NoAdmin EXCEPT !.state = "CAPTURE", !.key = s.capture.key]
    ELSE IF s.pending = NoRequest THEN s.admin
    ELSE [NoAdmin EXCEPT !.state = "EXPORT", !.slot = s.pending[1]]

AdminEnds(s, x) ==
    IF s.admin.state = "CAPTURE"
    THEN \/ s.capture.active /\ (x.abort \/ (x.commit /\ s.capture.allocated))
         \/ ~s.capture.active
         \/ s.admin.primed /\ s.admin.slot = Slots - 1
    ELSE s.admin.primed

\* The read port has the next slot's record as it was before a commit of this
\* cycle; its register is kept while it is looked at.
AdminStep(s, x) ==
    LET next == IF s.admin.primed THEN s.admin.slot + 1 ELSE s.admin.slot
    IN  IF s.admin.state = "IDLE" THEN AdminIdle(s)
        ELSE IF AdminEnds(s, x) THEN NoAdmin
        ELSE [s.admin EXCEPT !.primed = TRUE, !.slot = next,
                             !.record = s.directory[next]]

PendingStep(s, x) ==
    IF x.request # NoRequest /\ export_ready(s, x) THEN x.request
    ELSE IF s.admin.state = "IDLE" /\ ~s.capture.alloc_pending THEN NoRequest
    ELSE s.pending

\* The scan's end answers the exporter, and dominates a commit of the same cycle.
ExportStep(s, x) ==
    LET d == s.admin.record
        hit == s.admin.slot \in s.valid
    IN  IF s.admin.state = "EXPORT" /\ AdminEnds(s, x)
        THEN [valid |-> hit, key |-> d.key, start |-> d.start,
              length |-> IF hit THEN d.length ELSE 0, response |-> TRUE]
        ELSE [s.export EXCEPT !.response = FALSE, !.valid = @ /\ ~capture_commit_ok(s, x)]

ServeScanned(v) == v.slot = Slots - 1

\* A change of the directory dominates a serve match of the same cycle.
ServeStep(s, x) ==
    LET v == s.serve
        d == s.directory[v.slot]
        request == x.serve_request # NoKey /\ serve_ready(s, x)
        dropped == [v EXCEPT !.busy = FALSE, !.selected = FALSE, !.primed = FALSE,
                             !.found = FALSE, !.length = 0, !.response = FALSE]
    IN  IF capture_commit_ok(s, x) \/ (x.serve_cancel /\ ~request) THEN dropped
        ELSE IF request
        THEN [dropped EXCEPT !.busy = TRUE, !.slot = 0, !.key = x.serve_request]
        ELSE IF ~v.busy THEN [v EXCEPT !.response = FALSE]
        ELSE IF ~v.primed THEN [v EXCEPT !.primed = TRUE, !.response = FALSE]
        ELSE IF serve_matches(s)
        THEN [dropped EXCEPT !.selected = TRUE, !.found = TRUE, !.start = d.start,
                             !.length = d.length, !.response = TRUE]
        ELSE IF ServeScanned(v) THEN [dropped EXCEPT !.response = TRUE]
        ELSE [v EXCEPT !.slot = @ + 1, !.response = FALSE]

-----------------------------------------------------------------------------
\* clear empties the store; the payload RAM and the directory's words stay.
Cleared(s) ==
    [StoreOff EXCEPT !.directory = s.directory, !.memory = s.memory]

\* One cycle with inputs x.
StoreStep(s, x) ==
    LET n == IF x.clear THEN [Cleared(s) EXCEPT !.memory = MemoryStep(s, x)]
             ELSE [s EXCEPT
                !.directory = DirectoryStep(s, x),
                !.valid = IF capture_commit_ok(s, x) THEN @ \cup {s.capture.slot} ELSE @,
                !.memory = MemoryStep(s, x), !.allocator = AllocatorStep(s, x),
                !.capture = CaptureStep(s, x), !.admin = AdminStep(s, x),
                !.pending = PendingStep(s, x), !.export = ExportStep(s, x),
                !.serve = ServeStep(s, x)]
    IN  [n EXCEPT
            !.owner_q = serve_in_range(s, x),
            !.read_q = IF serve_in_range(s, x)
                       THEN s.memory[serve_hit(s).start + x.offset] ELSE s.memory[0]]
=============================================================================
