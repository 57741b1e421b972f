----------------------- MODULE DescriptorServeProofs -----------------------
(***************************************************************************)
(* Proofs about DescriptorServe, for any devices, store and packet sizes   *)
(* and bounds.                                                             *)
(***************************************************************************)
EXTENDS DescriptorServe, TLAPS, WellFoundedInduction

KeyNames == Keys \cup {NoKey}
Bytes == KeyNames \X Nat \X Nat
Records == [key : KeyNames, start : Nat, length : Nat]
Captures ==
    [active : BOOLEAN, alloc_pending : BOOLEAN, allocated : BOOLEAN, rejected : BOOLEAN,
     overflow : BOOLEAN, key : KeyNames, base : Nat, length : Nat, slot : Entry,
     match : SUBSET Entry, free : SUBSET Entry]
Admins ==
    [state : {"IDLE", "CAPTURE", "EXPORT"}, slot : Entry, primed : BOOLEAN,
     key : KeyNames, record : Records]
Exports ==
    [valid : BOOLEAN, key : KeyNames, start : Nat, length : Nat, response : BOOLEAN]
Serves ==
    [busy : BOOLEAN, primed : BOOLEAN, slot : Entry, key : KeyNames, selected : BOOLEAN,
     found : BOOLEAN, start : Nat, length : Nat, response : BOOLEAN]
Pendings == {NoRequest} \cup {<<slot>> : slot \in Entry}
Stores ==
    [directory : [Entry -> Records], valid : SUBSET Entry,
     memory : [0..(StoreSize - 1) -> Bytes], allocator : 0..StoreSize,
     capture : Captures, admin : Admins, pending : Pendings,
     export : Exports, serve : Serves, owner_q : BOOLEAN, read_q : Bytes]
Streamers ==
    [prepared : BOOLEAN, prepared_found : BOOLEAN, prepare_queued : BOOLEAN,
     lookup_pending : BOOLEAN, start_pending : BOOLEAN, start_deferred : BOOLEAN,
     request_length : Nat, request_start : Nat, pos : Nat, chunk_end : Nat,
     active : BOOLEAN, zlp : BOOLEAN, stall : BOOLEAN]
Writers ==
    [phase : {"off", "drop", "clear", "wait", "start", "data", "commit", "abort", "up", "error"},
     session : 0..Len(Scripts), done : Nat, bytes : Nat]
Transfers ==
    [phase : {"idle", "setup", "ready", "packet", "acking", "done", "stalled"},
     key : KeyNames, length : Nat, position : Nat, acked : Nat, bytes : Nat]

Shape ==
    /\ store \in Stores /\ streamer \in Streamers
    /\ writer \in Writers /\ pc \in Transfers
    /\ setups \in Nat
    /\ {"state", "slot"} \subseteq DOMAIN exporter /\ exporter.slot \in Entry

Capturing == writer.phase \in {"data", "commit"}

\* Where the writer is in the device's script.
WriterPlaced ==
    /\ writer.phase # "off" => writer.session # 0
    /\ writer.phase \in {"drop", "clear"} => writer.done = 0
    /\ writer.phase \notin {"off", "drop", "clear"} => writer.done <= Len(script)
    /\ writer.phase \in {"start", "data", "commit"} => writer.done < Len(script)

\* A capture is open exactly while the writer writes one, and is the writer's.
CapturePlaced ==
    /\ writer.phase \in {"off", "wait", "start", "up", "error"} => ~store.capture.active
    /\ store.capture.active => store.allocator = store.capture.base + store.capture.length
    /\ store.capture.alloc_pending => store.capture.active
    /\ Capturing =>
         /\ store.capture.active
         /\ store.capture.key = current[1]
         /\ store.capture.length = writer.bytes
         /\ writer.bytes <= current[2]
    /\ writer.phase = "commit" => writer.bytes = current[2]
    /\ writer.phase = "start" => writer.bytes = 0

\* The slots that have a key's descriptor.
MatchIn(s, key) == {j \in s.valid : s.directory[j].key = key}
Match(key) == MatchIn(store, key)

\* The scan of the directory for the capture's slot, and the slot it finds.
ScanPlaced ==
    /\ writer.phase \in {"off", "wait", "start"} => store.admin.state = "IDLE"
    /\ writer.phase = "up" => store.admin.state # "CAPTURE"
    /\ Capturing =>
         /\ store.capture.length # 0 => store.capture.allocated
         /\ store.capture.alloc_pending => store.admin.state = "IDLE" /\ ~store.capture.allocated
         /\ store.capture.allocated => store.admin.state = "IDLE"
         /\ store.admin.state # "IDLE" =>
              /\ store.admin.state = "CAPTURE" /\ store.admin.key = store.capture.key
              /\ store.capture.match = {j \in Match(store.capture.key) : j < store.admin.slot}
              /\ store.capture.free = {j \in Entry : j < store.admin.slot} \ store.valid
              /\ IF store.admin.primed THEN store.admin.record = store.directory[store.admin.slot]
                 ELSE store.admin.slot = 0
         /\ store.capture.allocated /\ ~store.capture.rejected =>
              \/ store.capture.slot \in Match(store.capture.key)
              \/ Match(store.capture.key) = {} /\ store.capture.slot \notin store.valid

\* The part of the memory that committed captures have; the open capture's
\* bytes follow it.
Limit == IF store.capture.active THEN store.capture.base ELSE store.allocator

HeldIn(s, limit, session, key, start, length) ==
    /\ start + length <= limit
    /\ \A i \in 0..(length - 1) : s.memory[start + i] = <<key, session, i>>
HeldWhole(key, start, length) == HeldIn(store, Limit, writer.session, key, start, length)

DirectoryWhole ==
    writer.phase # "clear" =>
    /\ \A i \in store.valid :
          LET d == store.directory[i]
          IN  /\ HeldWhole(d.key, d.start, d.length)
              /\ \E k \in DOMAIN script : script[k] = <<d.key, d.length>>
    /\ \A i, j \in store.valid :
          store.directory[i].key = store.directory[j].key => i = j

CaptureWhole ==
    Capturing =>
       \A i \in 0..(store.capture.length - 1) :
          store.memory[store.capture.base + i] = <<store.capture.key, writer.session, i>>

\* Only a device that is up is read.
QuietUnlessUp ==
    /\ writer.phase = "off" => store.valid = {}
    /\ writer.phase \notin {"up", "drop"} =>
         /\ store.pending = NoRequest /\ ~store.export.valid /\ exporter.state = "IDLE"
         /\ ~store.serve.busy /\ ~store.serve.selected /\ ~store.serve.response
         /\ pc = NoTransfer
    /\ writer.phase # "up" => store.admin.state \in {"IDLE", "CAPTURE"} \/ writer.phase = "drop"

EntryIn(s, key, start, length) ==
    \E i \in s.valid : s.directory[i] = [key |-> key, start |-> start, length |-> length]
InDirectory(key, start, length) == EntryIn(store, key, start, length)

\* What the scans of the exporter and of the clone have found out.
AnswersTrue ==
    /\ store.export.valid => InDirectory(store.export.key, store.export.start, store.export.length)
    /\ store.admin.state = "EXPORT" /\ store.admin.primed =>
         store.admin.record = store.directory[store.admin.slot]

ServeTrue ==
    LET v == store.serve
    IN  /\ v.busy => /\ v.key # NoKey /\ ~v.selected /\ ~v.response
                     /\ \A j \in Match(v.key) : j >= v.slot
        /\ v.selected = v.found
        /\ v.selected => InDirectory(v.key, v.start, v.length)
        /\ v.response /\ ~v.selected => Match(v.key) = {}

Served == Lesser(store.serve.length, pc.length)

\* A lookup made for the transfer: what the store found, what the streamer knows
\* of it, and one that is on its way.
Found ==
    /\ store.serve.key = pc.key /\ ~store.serve.busy
    /\ ~store.serve.selected => Match(pc.key) = {}
LookupDone ==
    /\ streamer.prepared /\ ~streamer.lookup_pending
    /\ streamer.prepared_found = store.serve.selected
    /\ Found
LookupOn ==
    /\ ~streamer.prepared /\ streamer.lookup_pending
    /\ store.serve.key = pc.key
    /\ store.serve.busy \/ store.serve.response

Resting ==
    /\ ~streamer.active /\ ~streamer.zlp /\ ~streamer.stall
    /\ ~streamer.start_pending /\ ~streamer.start_deferred

Sending ==
    /\ LookupDone /\ store.serve.selected
    /\ streamer.active /\ ~streamer.zlp /\ ~streamer.stall
    /\ ~streamer.start_pending /\ ~streamer.start_deferred
    /\ streamer.pos = pc.position + pc.bytes
    /\ streamer.pos < streamer.chunk_end
    /\ streamer.chunk_end = Lesser(Served, pc.position + MaxPacketSize0)
    /\ store.owner_q /\ store.read_q = <<pc.key, writer.session, streamer.pos>>

\* A start that waits for the lookup, one that is replayed, a packet of no bytes,
\* and a refusal.
Waiting ==
    /\ LookupOn /\ streamer.start_pending /\ ~streamer.start_deferred
    /\ ~streamer.zlp /\ ~streamer.stall
    /\ streamer.request_start = pc.position /\ streamer.request_length = pc.length
Replaying ==
    /\ LookupDone /\ streamer.start_deferred /\ ~streamer.start_pending
    /\ ~streamer.zlp /\ ~streamer.stall
Ending ==
    /\ LookupDone /\ store.serve.selected /\ Served <= pc.position
    /\ streamer.zlp /\ ~streamer.stall
    /\ ~streamer.start_pending /\ ~streamer.start_deferred
Refusing ==
    /\ LookupDone /\ ~store.serve.selected
    /\ ~streamer.zlp /\ streamer.stall

\* The phases of a transfer.
InTransfer == pc.phase \in {"setup", "ready", "packet", "acking"}
TransferKept ==
    InTransfer =>
         /\ pc.key \in Keys /\ pc.length # 0 /\ pc.acked = pc.position
         /\ pc.acked < pc.length
         /\ pc.acked # 0 => \E i \in Match(pc.key) : pc.acked <= store.directory[i].length
ReadyPlaced == pc.phase = "ready" => Resting /\ (LookupOn \/ LookupDone)
PacketPlaced ==
    pc.phase = "packet" =>
       \/ Sending
       \/ pc.bytes = 0 /\ ~streamer.active /\ (Waiting \/ Replaying \/ Ending \/ Refusing)
AckPlaced ==
    pc.phase = "acking" =>
         /\ LookupDone /\ store.serve.selected /\ Resting
         /\ pc.acked + pc.bytes = Lesser(Served, pc.acked + MaxPacketSize0)
EndPlaced ==
    /\ pc.phase = "done" =>
         \E i \in Match(pc.key) : pc.acked = Lesser(pc.length, store.directory[i].length)
    /\ pc.phase = "stalled" => Match(pc.key) = {}
TransferPlaced ==
    /\ TransferKept
    /\ pc.phase = "setup" => streamer = StreamerOff /\ pc.position = 0
    /\ ReadyPlaced /\ PacketPlaced /\ AckPlaced /\ EndPlaced

\* The store takes a lookup in the cycle it is asked for.
NothingQueued == ~streamer.prepare_queued

IInv ==
    /\ Shape /\ WriterPlaced /\ CapturePlaced /\ ScanPlaced
    /\ DirectoryWhole /\ CaptureWhole /\ QuietUnlessUp /\ AnswersTrue /\ ServeTrue /\ NothingQueued
    /\ writer.phase = "up" => TransferPlaced
-----------------------------------------------------------------------------
\* There are a slot and a byte of memory at least, and the slots are numbers.
LEMMA Sizes ==
  /\ Slots \in Nat /\ Slots >= 1 /\ StoreSize \in Nat /\ StoreSize >= 1
  /\ MaxPacketSize0 \in Nat /\ MaxPacketSize0 >= 1 /\ NoKey \notin Keys
  /\ 0 \in Entry /\ Slots - 1 \in Entry /\ Entry \subseteq Nat /\ 0 \in 0..StoreSize
  BY StoreAssumption, StreamerAssumption DEF Entry

\* The least of a set of numbers is one of them.
LEMMA FirstIn ==
  ASSUME NEW S \in SUBSET Nat, S # {}
  PROVE  first(S) \in S
  <1> DEFINE R == {ss \in Nat \X Nat : ss[1] < ss[2]}
  <1>1. R = OpToRel(<, Nat)
    BY Zenon DEF OpToRel
  <1>2. IsWellFoundedOn(R, Nat)
    BY <1>1, NatLessThanWellFounded, Zenon
  <1> HIDE DEF R
  <1>4. \A m, n \in Nat : m < n => <<m, n>> \in R
    BY DEF R
  <1>3. PICK n \in S : \A m \in S : ~(<<m, n>> \in R)
    BY <1>2, WFMin, Zenon
  <1>5. \A m \in S : n <= m
    <2> SUFFICES ASSUME NEW m \in S PROVE n <= m
      OBVIOUS
    <2>1. m \in Nat /\ n \in Nat
      OBVIOUS
    <2>2. ~(m < n)
      BY <1>3, <1>4, <2>1, Zenon
    <2> QED
      BY <2>1, <2>2
  <1> QED
    BY <1>5 DEF first

\* What the store sees.
LEMMA SeenInputs ==
  ASSUME NEW offer, NEW i
  PROVE  LET x == StoreInputs(offer, i)
         IN  /\ x.clear <=> writer.phase \in {"clear", "drop"}
             /\ x.abort <=> writer.phase \in {"clear", "drop", "abort"}
             /\ x.start = (IF writer.phase = "start" THEN current[1] ELSE NoKey)
             /\ x.commit <=> writer.phase = "commit"
             /\ x.data = (IF offer THEN ByteOffered ELSE NoByte)
             /\ x.request = export_request(exporter)
             /\ x.serve_request = serve_request(streamer, i)
             /\ x.serve_cancel = serve_cancel(streamer, i)
             /\ x.offset = serve_offset(streamer, i)
             /\ x.read_enable = serve_read_enable(streamer, i)
  <1>1. /\ Asked(streamer, i).serve_request = serve_request(streamer, i)
        /\ Asked(streamer, i).serve_cancel = serve_cancel(streamer, i)
        /\ Asked(streamer, i).offset = serve_offset(streamer, i)
        /\ Asked(streamer, i).read_enable = serve_read_enable(streamer, i)
    BY DEF Asked, Quiet
  <1> QED
    BY <1>1 DEF StoreInputs, Strobes, Quiet

\* A cycle without a clear writes each field of the store.
LEMMA StoreFields ==
  ASSUME NEW s \in Stores, NEW x, ~x.clear
  PROVE  LET n == StoreStep(s, x)
         IN  /\ n.directory = DirectoryStep(s, x)
             /\ n.valid = IF capture_commit_ok(s, x) THEN s.valid \cup {s.capture.slot} ELSE s.valid
             /\ n.memory = MemoryStep(s, x) /\ n.allocator = AllocatorStep(s, x)
             /\ n.capture = CaptureStep(s, x) /\ n.admin = AdminStep(s, x)
             /\ n.pending = PendingStep(s, x) /\ n.export = ExportStep(s, x)
             /\ n.serve = ServeStep(s, x)
             /\ n.owner_q = serve_in_range(s, x)
             /\ n.read_q = IF serve_in_range(s, x)
                           THEN s.memory[serve_hit(s).start + x.offset] ELSE s.memory[0]
  BY DEF StoreStep, Stores

\* A clear resets each register, and leaves the two memories.
LEMMA ClearedFields ==
  ASSUME NEW s \in Stores, NEW x, x.clear
  PROVE  LET n == StoreStep(s, x)
         IN  /\ n.directory = s.directory /\ n.valid = {}
             /\ n.memory = MemoryStep(s, x) /\ n.allocator = 0
             /\ n.capture = NoCapture /\ n.admin = NoAdmin
             /\ n.pending = NoRequest /\ n.export = NoExport
             /\ n.serve = NoServe
             /\ n.owner_q = serve_in_range(s, x)
             /\ n.read_q = IF serve_in_range(s, x)
                           THEN s.memory[serve_hit(s).start + x.offset] ELSE s.memory[0]
  BY DEF StoreStep, Cleared, StoreOff, Stores

-----------------------------------------------------------------------------
(***************************************************************************)
(* Types: what a cycle makes of each part of the store.                    *)
(***************************************************************************)

\* The values registers are reset to.
LEMMA ResetTypes ==
  /\ NoRecord \in Records /\ NoCapture \in Captures /\ NoAdmin \in Admins
  /\ NoExport \in Exports /\ NoServe \in Serves /\ NoByte \in Bytes
  /\ StreamerOff \in Streamers /\ NoTransfer \in Transfers
  /\ NoRequest \in Pendings
  /\ NoKey \in KeyNames /\ 0 \in Nat /\ 0 \in Entry
  <1>1. NoRecord \in Records /\ NoByte \in Bytes /\ NoKey \in KeyNames /\ 0 \in Entry
    BY Sizes DEF NoRecord, Records, NoByte, Bytes, KeyNames
  <1>2. NoCapture \in Captures /\ NoExport \in Exports /\ NoServe \in Serves
    BY <1>1 DEF NoCapture, Captures, NoExport, Exports, NoServe, Serves
  <1>3. NoAdmin \in Admins
    BY <1>1 DEF NoAdmin, Admins
  <1>4. StreamerOff \in Streamers /\ NoTransfer \in Transfers
    BY <1>1 DEF StreamerOff, Streamers, NoTransfer, Transfers
  <1>5. NoRequest \in Pendings
    BY DEF Pendings
  <1> QED
    BY <1>1, <1>2, <1>3, <1>4, <1>5

\* The parts of a store.
LEMMA StoreParts ==
  ASSUME NEW s \in Stores
  PROVE  /\ s.directory \in [Entry -> Records] /\ s.valid \in SUBSET Entry
         /\ s.memory \in [0..(StoreSize - 1) -> Bytes]
         /\ s.allocator \in 0..StoreSize /\ s.allocator \in Nat
         /\ s.capture \in Captures /\ s.admin \in Admins
         /\ s.pending \in Pendings /\ s.export \in Exports
         /\ s.serve \in Serves
  BY Sizes DEF Stores

\* The parts of a capture.
LEMMA CaptureParts ==
  ASSUME NEW c \in Captures
  PROVE  /\ c.active \in BOOLEAN /\ c.alloc_pending \in BOOLEAN /\ c.allocated \in BOOLEAN
         /\ c.rejected \in BOOLEAN /\ c.overflow \in BOOLEAN /\ c.key \in KeyNames
         /\ c.base \in Nat /\ c.length \in Nat /\ c.length + 1 \in Nat /\ c.slot \in Entry
         /\ c.match \in SUBSET Entry /\ c.free \in SUBSET Entry
  BY DEF Captures

\* The parts of the directory's scan.
LEMMA AdminParts ==
  ASSUME NEW a \in Admins
  PROVE  /\ a.state \in {"IDLE", "CAPTURE", "EXPORT"} /\ a.slot \in Entry
         /\ a.primed \in BOOLEAN /\ a.key \in KeyNames /\ a.record \in Records
  BY DEF Admins

\* The parts of the clone's port.
LEMMA ServeParts ==
  ASSUME NEW v \in Serves
  PROVE  /\ v.busy \in BOOLEAN /\ v.primed \in BOOLEAN /\ v.slot \in Entry
         /\ v.key \in KeyNames /\ v.selected \in BOOLEAN /\ v.found \in BOOLEAN
         /\ v.start \in Nat /\ v.length \in Nat /\ v.response \in BOOLEAN
  BY DEF Serves

\* The scan of the capture: what it has found so far, and what it chooses.
LEMMA AllocatedFields ==
  ASSUME NEW s \in Stores
  PROVE  LET match == s.capture.match \cup (IF admin_matches(s) THEN {s.admin.slot} ELSE {})
             free == s.capture.free \cup (IF s.admin.slot \in s.valid THEN {} ELSE {s.admin.slot})
             full == match = {} /\ free = {}
             n == Allocated(s)
         IN  /\ n \in Captures
             /\ n.active = s.capture.active /\ n.alloc_pending = s.capture.alloc_pending
             /\ n.key = s.capture.key /\ n.base = s.capture.base /\ n.length = s.capture.length
             /\ s.admin.slot = Slots - 1 =>
                  /\ n.allocated = TRUE /\ n.rejected = full /\ n.overflow = full
                  /\ ~full => n.slot = Chosen(match, free)
             /\ s.admin.slot # Slots - 1 =>
                  /\ n.match = match /\ n.free = free
                  /\ n.allocated = s.capture.allocated
  <1> DEFINE match == s.capture.match \cup (IF admin_matches(s) THEN {s.admin.slot} ELSE {})
             free == s.capture.free \cup (IF s.admin.slot \in s.valid THEN {} ELSE {s.admin.slot})
             full == match = {} /\ free = {}
             slot == IF full THEN s.capture.slot ELSE Chosen(match, free)
  <1>1. s.capture \in Captures /\ s.admin.slot \in Entry
    BY StoreParts, AdminParts
  <1>2. match \in SUBSET Entry /\ free \in SUBSET Entry /\ full \in BOOLEAN
    BY <1>1, CaptureParts
  <1>3. ~full => Chosen(match, free) \in Entry
    BY <1>2, FirstIn, Sizes DEF Chosen
  <1>4. slot \in Entry
    BY <1>1, <1>3, CaptureParts
  <1>5. Allocated(s) = IF s.admin.slot = Slots - 1
                       THEN [s.capture EXCEPT !.allocated = TRUE, !.rejected = full, !.overflow = full,
                                              !.slot = slot]
                       ELSE [s.capture EXCEPT !.match = match, !.free = free]
    BY DEF Allocated
  <1> HIDE DEF match, free, full, slot
  <1>6. CASE s.admin.slot = Slots - 1
    <2>1. Allocated(s) = [s.capture EXCEPT !.allocated = TRUE, !.rejected = full, !.overflow = full,
                                           !.slot = slot]
      BY <1>5, <1>6
    <2>2. Allocated(s) \in Captures
      BY <1>1, <1>2, <1>4, <2>1, Zenon DEF Captures
    <2>3. /\ Allocated(s).active = s.capture.active
          /\ Allocated(s).alloc_pending = s.capture.alloc_pending
          /\ Allocated(s).key = s.capture.key /\ Allocated(s).base = s.capture.base
          /\ Allocated(s).length = s.capture.length
          /\ Allocated(s).allocated = TRUE /\ Allocated(s).rejected = full
          /\ Allocated(s).overflow = full /\ Allocated(s).slot = slot
      BY <1>1, <2>1, Zenon DEF Captures
    <2> QED
      BY <1>6, <2>2, <2>3 DEF match, free, full, slot
  <1>7. CASE s.admin.slot # Slots - 1
    <2>1. Allocated(s) = [s.capture EXCEPT !.match = match, !.free = free]
      BY <1>5, <1>7
    <2>2. Allocated(s) \in Captures
      BY <1>1, <1>2, <2>1, Zenon DEF Captures
    <2>3. /\ Allocated(s).active = s.capture.active
          /\ Allocated(s).alloc_pending = s.capture.alloc_pending
          /\ Allocated(s).key = s.capture.key /\ Allocated(s).base = s.capture.base
          /\ Allocated(s).length = s.capture.length
          /\ Allocated(s).allocated = s.capture.allocated
          /\ Allocated(s).match = match /\ Allocated(s).free = free
      BY <1>1, <2>1, Zenon DEF Captures
    <2> QED
      BY <1>7, <2>2, <2>3 DEF match, free, full
  <1> QED
    BY <1>6, <1>7

\* A capture is opened, follows the scan, counts a byte, and is closed.
Opened(s, x) == [NoCapture EXCEPT !.active = TRUE, !.alloc_pending = TRUE,
                      !.key = x.start, !.base = s.allocator]
Scanned(s) == IF s.admin.state = "CAPTURE" /\ s.admin.primed THEN Allocated(s)
              ELSE IF s.admin.state = "IDLE" /\ s.capture.alloc_pending
              THEN [s.capture EXCEPT !.alloc_pending = FALSE, !.match = {}, !.free = {}]
              ELSE s.capture
Ended(s) == [Scanned(s) EXCEPT !.active = FALSE, !.alloc_pending = FALSE,
                               !.allocated = @ /\ ~s.capture.allocated]
Aborted(s) == [Ended(s) EXCEPT !.allocated = FALSE, !.rejected = FALSE, !.overflow = FALSE]
Counted(c) == [c EXCEPT !.length = @ + 1]
Overflowed(c) == [c EXCEPT !.overflow = TRUE]

\* What a cycle makes of the capture, case by case.
LEMMA CaptureCases ==
  ASSUME NEW s \in Stores, NEW x
  PROVE  /\ ~s.capture.active /\ x.start # NoKey => CaptureStep(s, x) = Opened(s, x)
         /\ ~s.capture.active /\ x.start = NoKey => CaptureStep(s, x) = s.capture
         /\ s.capture.active /\ x.abort => CaptureStep(s, x) = Aborted(s)
         /\ s.capture.active /\ ~x.abort /\ x.commit => CaptureStep(s, x) = Ended(s)
         /\ s.capture.active /\ ~x.abort /\ ~x.commit =>
              /\ x.data # NoByte /\ s.capture.allocated /\ capture_ready(s) =>
                   CaptureStep(s, x) = Counted(s.capture)
              /\ x.data # NoByte /\ s.capture.allocated /\ ~capture_ready(s) =>
                   CaptureStep(s, x) = Overflowed(s.capture)
              /\ ~(x.data # NoByte /\ s.capture.allocated) => CaptureStep(s, x) = Scanned(s)
  BY DEF CaptureStep, Opened, Scanned, Ended, Aborted, Counted, Overflowed

\* A capture that is opened is empty, and starts at the allocator.
LEMMA OpenedFields ==
  ASSUME NEW s \in Stores, NEW x, x.start \in KeyNames
  PROVE  /\ Opened(s, x) \in Captures
         /\ Opened(s, x).active = TRUE /\ Opened(s, x).alloc_pending = TRUE
         /\ Opened(s, x).allocated = FALSE /\ Opened(s, x).rejected = FALSE
         /\ Opened(s, x).key = x.start /\ Opened(s, x).base = s.allocator
         /\ Opened(s, x).length = 0
  BY StoreParts, ResetTypes, Zenon DEF Opened, NoCapture, Captures

\* The scan that follows a capture changes nothing but what it found.
LEMMA ScannedFields ==
  ASSUME NEW s \in Stores
  PROVE  /\ Scanned(s) \in Captures
         /\ Scanned(s).active = s.capture.active
         /\ Scanned(s).key = s.capture.key /\ Scanned(s).base = s.capture.base
         /\ Scanned(s).length = s.capture.length
         /\ s.admin.state = "CAPTURE" /\ s.admin.primed => Scanned(s) = Allocated(s)
         /\ s.admin.state = "IDLE" /\ s.capture.alloc_pending =>
              /\ Scanned(s).alloc_pending = FALSE /\ Scanned(s).match = {} /\ Scanned(s).free = {}
              /\ Scanned(s).allocated = s.capture.allocated /\ Scanned(s).slot = s.capture.slot
              /\ Scanned(s).rejected = s.capture.rejected
         /\ ~(s.admin.state = "CAPTURE" /\ s.admin.primed)
            /\ ~(s.admin.state = "IDLE" /\ s.capture.alloc_pending) => Scanned(s) = s.capture
  <1> DEFINE scanning == s.admin.state = "CAPTURE" /\ s.admin.primed
             begins == s.admin.state = "IDLE" /\ s.capture.alloc_pending
  <1>1. s.capture \in Captures
    BY StoreParts
  <1>2. CASE scanning
    BY <1>2, AllocatedFields DEF Scanned
  <1>3. CASE begins
    <2> DEFINE n == [s.capture EXCEPT !.alloc_pending = FALSE, !.match = {}, !.free = {}]
    <2>1. Scanned(s) = n
      BY <1>3 DEF Scanned
    <2>2. n \in Captures /\ n.active = s.capture.active /\ n.key = s.capture.key
          /\ n.base = s.capture.base /\ n.length = s.capture.length /\ n.alloc_pending = FALSE
          /\ n.match = {} /\ n.free = {} /\ n.allocated = s.capture.allocated
          /\ n.slot = s.capture.slot /\ n.rejected = s.capture.rejected
      <3>1. {} \in SUBSET Entry
        OBVIOUS
      <3> QED
        BY <1>1, <3>1, Zenon DEF Captures
    <2> HIDE DEF n
    <2> QED
      BY <1>3, <2>1, <2>2
  <1>4. CASE ~scanning /\ ~begins
    BY <1>1, <1>4 DEF Scanned
  <1> QED
    BY <1>2, <1>3, <1>4

\* A capture that ends is closed, and keeps its key and its place.
LEMMA EndedFields ==
  ASSUME NEW s \in Stores
  PROVE  /\ Ended(s) \in Captures /\ Aborted(s) \in Captures
         /\ Ended(s).active = FALSE /\ Aborted(s).active = FALSE
         /\ Ended(s).alloc_pending = FALSE /\ Aborted(s).alloc_pending = FALSE
  <1>1. Scanned(s) \in Captures /\ (Scanned(s).allocated /\ ~s.capture.allocated) \in BOOLEAN
    BY ScannedFields
  <1>2. Ended(s) \in Captures /\ Ended(s).active = FALSE /\ Ended(s).alloc_pending = FALSE
    BY <1>1, Zenon DEF Ended, Captures
  <1>3. Aborted(s) \in Captures /\ Aborted(s).active = FALSE /\ Aborted(s).alloc_pending = FALSE
    <2> DEFINE e == Ended(s)
    <2>1. Aborted(s) = [e EXCEPT !.allocated = FALSE, !.rejected = FALSE, !.overflow = FALSE]
      BY DEF Aborted
    <2> HIDE DEF e
    <2>2. e \in Captures /\ e.active = FALSE /\ e.alloc_pending = FALSE
      BY <1>2 DEF e
    <2> QED
      BY <2>1, <2>2, Zenon DEF Captures
  <1> QED
    BY <1>2, <1>3

\* A byte counted, and one that does not fit.
LEMMA CountedFields ==
  ASSUME NEW c \in Captures
  PROVE  LET n == Counted(c)
             o == Overflowed(c)
         IN  /\ n \in Captures /\ o \in Captures
             /\ n.length = c.length + 1 /\ o.length = c.length
             /\ n.active = c.active /\ n.key = c.key /\ n.base = c.base /\ n.slot = c.slot
             /\ o.active = c.active /\ o.key = c.key /\ o.base = c.base /\ o.slot = c.slot
             /\ n.alloc_pending = c.alloc_pending /\ o.alloc_pending = c.alloc_pending
             /\ n.allocated = c.allocated /\ o.allocated = c.allocated
             /\ n.rejected = c.rejected /\ o.rejected = c.rejected
             /\ n.match = c.match /\ o.match = c.match /\ n.free = c.free /\ o.free = c.free
  <1>1. c.length + 1 \in Nat
    BY CaptureParts
  <1> QED
    BY <1>1, Zenon DEF Captures, Counted, Overflowed

\* The capture keeps its types.
LEMMA CaptureTyped ==
  ASSUME NEW s \in Stores, NEW x, x.start \in KeyNames
  PROVE  CaptureStep(s, x) \in Captures
  <1>1. s.capture \in Captures
    BY StoreParts
  <1>2. Counted(s.capture) \in Captures /\ Overflowed(s.capture) \in Captures
    BY <1>1, CountedFields
  <1>3. Opened(s, x) \in Captures /\ Scanned(s) \in Captures /\ Ended(s) \in Captures
        /\ Aborted(s) \in Captures
    BY OpenedFields, ScannedFields, EndedFields
  <1> QED
    BY <1>1, <1>2, <1>3, CaptureCases

\* The memory keeps its types.
LEMMA MemoryTyped ==
  ASSUME NEW s \in Stores, NEW x, x.data \in Bytes
  PROVE  MemoryStep(s, x) \in [0..(StoreSize - 1) -> Bytes]
  BY StoreParts, Sizes DEF MemoryStep, capture_ready

\* The allocator stays within the memory.
LEMMA AllocatorTyped ==
  ASSUME NEW s \in Stores, NEW x,
         s.capture.active => s.allocator = s.capture.base + s.capture.length
  PROVE  AllocatorStep(s, x) \in 0..StoreSize
  <1>1. s.capture.base \in Nat /\ s.capture.length \in Nat /\ s.allocator \in 0..StoreSize
    BY StoreParts, CaptureParts
  <1> QED
    BY <1>1, Sizes DEF AllocatorStep, capture_ready

\* The directory keeps its types.
LEMMA DirectoryTyped ==
  ASSUME NEW s \in Stores, NEW x
  PROVE  DirectoryStep(s, x) \in [Entry -> Records]
  <1>1. [key |-> s.capture.key, start |-> s.capture.base, length |-> s.capture.length] \in Records
    BY StoreParts, CaptureParts DEF Records
  <1>2. s.capture.slot \in Entry /\ s.directory \in [Entry -> Records]
    BY StoreParts, CaptureParts
  <1> QED
    BY <1>1, <1>2 DEF DirectoryStep

\* The admin scan's step: it waits, starts for the capture or the exporter,
\* ends, or looks at the next slot.
SlotLooked(s) == IF s.admin.primed THEN s.admin.slot + 1 ELSE s.admin.slot
Looked(s) == [s.admin EXCEPT !.primed = TRUE, !.slot = SlotLooked(s),
                             !.record = s.directory[SlotLooked(s)]]

\* What a cycle makes of the scan, case by case.
LEMMA AdminCases ==
  ASSUME NEW s \in Stores, NEW x
  PROVE  /\ s.admin.state = "IDLE" /\ s.capture.alloc_pending =>
              AdminStep(s, x) = [NoAdmin EXCEPT !.state = "CAPTURE", !.key = s.capture.key]
         /\ s.admin.state = "IDLE" /\ ~s.capture.alloc_pending /\ s.pending = NoRequest =>
              AdminStep(s, x) = s.admin
         /\ s.admin.state # "IDLE" /\ AdminEnds(s, x) => AdminStep(s, x) = NoAdmin
         /\ s.admin.state # "IDLE" /\ ~AdminEnds(s, x) => AdminStep(s, x) = Looked(s)
  BY DEF AdminStep, AdminIdle, Looked, SlotLooked

\* The scan that starts for the exporter.
LEMMA AdminAsked ==
  ASSUME NEW s \in Stores, NEW x,
         s.admin.state = "IDLE", ~s.capture.alloc_pending, s.pending # NoRequest
  PROVE  /\ AdminStep(s, x) \in Admins /\ AdminStep(s, x).state = "EXPORT"
         /\ AdminStep(s, x).primed = FALSE
  <1> DEFINE slot == s.pending[1]
  <1>1. s.pending \in Pendings
    BY StoreParts
  <1>2. slot \in Entry
    BY <1>1 DEF Pendings
  <1>3. AdminStep(s, x) = [NoAdmin EXCEPT !.state = "EXPORT", !.slot = slot]
    BY DEF AdminStep, AdminIdle
  <1> HIDE DEF slot
  <1> QED
    BY <1>2, <1>3, ResetTypes DEF NoAdmin, Admins

\* The next slot of a scan that goes on.
LEMMA LookedFields ==
  ASSUME NEW s \in Stores, NEW x, s.admin.state # "IDLE", ~AdminEnds(s, x)
  PROVE  /\ Looked(s) \in Admins /\ Looked(s).state = s.admin.state
         /\ Looked(s).key = s.admin.key /\ Looked(s).primed = TRUE
         /\ Looked(s).slot = SlotLooked(s) /\ Looked(s).record = s.directory[SlotLooked(s)]
         /\ SlotLooked(s) \in Entry
  <1>1. s.admin \in Admins /\ s.directory \in [Entry -> Records]
    BY StoreParts
  <1>2. s.admin.slot \in Entry /\ s.admin.primed \in BOOLEAN
        /\ s.admin.state \in {"CAPTURE", "EXPORT"}
    BY <1>1, AdminParts
  <1>3. s.admin.primed => s.admin.slot # Slots - 1
    BY <1>2 DEF AdminEnds
  <1>4. SlotLooked(s) \in Entry
    BY <1>2, <1>3, Sizes DEF SlotLooked, Entry
  <1>5. s.directory[SlotLooked(s)] \in Records
    BY <1>1, <1>4
  <1> QED
    BY <1>1, <1>4, <1>5, Zenon DEF Looked, Admins

\* A capture's scan starts at slot 0.
LEMMA StartedScan ==
  ASSUME NEW key \in KeyNames
  PROVE  LET a == [NoAdmin EXCEPT !.state = "CAPTURE", !.key = key]
         IN  /\ a \in Admins /\ a.state = "CAPTURE" /\ a.key = key
             /\ a.slot = 0 /\ a.primed = FALSE
  BY ResetTypes DEF NoAdmin, Admins

\* The scan keeps its types.
LEMMA AdminTyped ==
  ASSUME NEW s \in Stores, NEW x
  PROVE  AdminStep(s, x) \in Admins
  <1>1. s.admin \in Admins /\ s.capture.key \in KeyNames
    BY StoreParts, CaptureParts
  <1>2. CASE s.admin.state = "IDLE" /\ s.capture.alloc_pending
    BY <1>1, <1>2, AdminCases, StartedScan
  <1>3. CASE s.admin.state = "IDLE" /\ ~s.capture.alloc_pending
    BY <1>1, <1>3, AdminCases, AdminAsked
  <1>4. CASE s.admin.state # "IDLE"
    BY <1>4, AdminCases, LookedFields, ResetTypes
  <1> QED
    BY <1>2, <1>3, <1>4

\* The queued request keeps its type.
LEMMA PendingTyped ==
  ASSUME NEW s \in Stores, NEW x, x.request \in Pendings
  PROVE  PendingStep(s, x) \in Pendings
  BY StoreParts DEF PendingStep, Pendings

\* So does the answer.
LEMMA ExportTyped ==
  ASSUME NEW s \in Stores, NEW x
  PROVE  ExportStep(s, x) \in Exports
  <1> DEFINE hit == s.admin.slot \in s.valid
             d == s.admin.record
             length == IF hit THEN d.length ELSE 0
             kept == s.export.valid /\ ~capture_commit_ok(s, x)
  <1>1. hit \in BOOLEAN /\ kept \in BOOLEAN
    OBVIOUS
  <1>2. d.key \in KeyNames /\ d.start \in Nat /\ length \in Nat
    BY StoreParts, AdminParts DEF Records
  <1>3. s.export \in Exports
    BY StoreParts
  <1>4. \/ ExportStep(s, x) = [valid |-> hit, key |-> d.key, start |-> d.start,
                              length |-> length, response |-> TRUE]
        \/ ExportStep(s, x) = [s.export EXCEPT !.response = FALSE, !.valid = kept]
    BY <1>3 DEF ExportStep, Exports
  <1> HIDE DEF hit, d, length, kept
  <1>5. [valid |-> hit, key |-> d.key, start |-> d.start, length |-> length,
         response |-> TRUE] \in Exports
    BY <1>1, <1>2 DEF Exports
  <1>6. [s.export EXCEPT !.response = FALSE, !.valid = kept] \in Exports
    BY <1>1, <1>3, Zenon DEF Exports
  <1> QED
    BY <1>4, <1>5, <1>6

\* The clone's scan: a change of the directory or a cancel ends it, a request
\* starts it, and it looks at one slot a cycle.
Unselected(v) == [v EXCEPT !.busy = FALSE, !.selected = FALSE, !.primed = FALSE,
                           !.found = FALSE, !.length = 0, !.response = FALSE]
Asking(s, x) == x.serve_request # NoKey /\ serve_ready(s, x)
ServeDrops(s, x) == capture_commit_ok(s, x) \/ (x.serve_cancel /\ ~Asking(s, x))
Sought(v, key) == [Unselected(v) EXCEPT !.busy = TRUE, !.slot = 0, !.key = key]
Selected(v, d) == [Unselected(v) EXCEPT !.selected = TRUE, !.found = TRUE, !.start = d.start,
                                        !.length = d.length, !.response = TRUE]
Missed(v) == [Unselected(v) EXCEPT !.response = TRUE]
Held(v) == [v EXCEPT !.response = FALSE]
Primed(v) == [v EXCEPT !.primed = TRUE, !.response = FALSE]
Advanced(v) == [v EXCEPT !.slot = @ + 1, !.response = FALSE]

\* What a cycle makes of the clone's port, case by case.
LEMMA ServeCases ==
  ASSUME NEW s \in Stores, NEW x
  PROVE  LET v == s.serve
             n == ServeStep(s, x)
         IN  /\ ServeDrops(s, x) => n = Unselected(v)
             /\ ~ServeDrops(s, x) =>
                  /\ Asking(s, x) => n = Sought(v, x.serve_request)
                  /\ ~Asking(s, x) =>
                       /\ ~v.busy => n = Held(v)
                       /\ v.busy /\ ~v.primed => n = Primed(v)
                       /\ v.busy /\ v.primed /\ serve_matches(s) =>
                            n = Selected(v, s.directory[v.slot])
                       /\ v.busy /\ v.primed /\ ~serve_matches(s) /\ ServeScanned(v) => n = Missed(v)
                       /\ v.busy /\ v.primed /\ ~serve_matches(s) /\ ~ServeScanned(v) =>
                            n = Advanced(v)
  BY Zenon DEF ServeStep, ServeDrops, Asking, Unselected, Sought, Selected, Missed, Held, Primed,
               Advanced

\* A lookup that is dropped, starts, finds its descriptor, or misses it.
LEMMA ServeFields ==
  ASSUME NEW v \in Serves
  PROVE  /\ LET u == Unselected(v)
            IN  /\ u \in Serves /\ u.busy = FALSE /\ u.selected = FALSE /\ u.found = FALSE
                /\ u.response = FALSE /\ u.key = v.key
         /\ \A key \in KeyNames :
              LET n == Sought(v, key)
              IN  /\ n \in Serves /\ n.busy = TRUE /\ n.selected = FALSE /\ n.found = FALSE
                  /\ n.response = FALSE /\ n.key = key /\ n.slot = 0
         /\ \A d \in Records :
              LET n == Selected(v, d)
              IN  /\ n \in Serves /\ n.busy = FALSE /\ n.selected = TRUE /\ n.found = TRUE
                  /\ n.response = TRUE /\ n.key = v.key /\ n.start = d.start /\ n.length = d.length
         /\ LET n == Missed(v)
            IN  /\ n \in Serves /\ n.busy = FALSE /\ n.selected = FALSE /\ n.found = FALSE
                /\ n.response = TRUE /\ n.key = v.key
  <1> DEFINE u == Unselected(v)
  <1>1. /\ u \in Serves /\ u.busy = FALSE /\ u.selected = FALSE /\ u.found = FALSE
        /\ u.response = FALSE /\ u.key = v.key
    <2>1. 0 \in Nat
      OBVIOUS
    <2> QED
      BY <2>1, Zenon DEF Unselected, Serves
  <1>2. ASSUME NEW key \in KeyNames
        PROVE  LET n == Sought(v, key)
               IN  /\ n \in Serves /\ n.busy = TRUE /\ n.selected = FALSE /\ n.found = FALSE
                   /\ n.response = FALSE /\ n.key = key /\ n.slot = 0
    <2>1. Sought(v, key) = [u EXCEPT !.busy = TRUE, !.slot = 0, !.key = key]
      BY DEF Sought
    <2> HIDE DEF u
    <2> QED
      BY <1>1, <2>1, Sizes, Zenon DEF Serves
  <1>3. ASSUME NEW d \in Records
        PROVE  LET n == Selected(v, d)
               IN  /\ n \in Serves /\ n.busy = FALSE /\ n.selected = TRUE /\ n.found = TRUE
                   /\ n.response = TRUE /\ n.key = v.key /\ n.start = d.start /\ n.length = d.length
    <2>1. Selected(v, d) = [u EXCEPT !.selected = TRUE, !.found = TRUE, !.start = d.start,
                                     !.length = d.length, !.response = TRUE]
      BY DEF Selected
    <2>2. d.start \in Nat /\ d.length \in Nat
      BY DEF Records
    <2> HIDE DEF u
    <2> QED
      BY <1>1, <2>1, <2>2, Zenon DEF Serves
  <1>4. LET n == Missed(v)
        IN  /\ n \in Serves /\ n.busy = FALSE /\ n.selected = FALSE /\ n.found = FALSE
            /\ n.response = TRUE /\ n.key = v.key
    <2>1. Missed(v) = [u EXCEPT !.response = TRUE]
      BY DEF Missed
    <2> HIDE DEF u
    <2> QED
      BY <1>1, <2>1, Zenon DEF Serves
  <1> QED
    BY <1>1, <1>2, <1>3, <1>4

\* A lookup that rests, is primed, or goes to the next slot.
LEMMA ServeMoves ==
  ASSUME NEW v \in Serves
  PROVE  /\ LET n == Held(v)
            IN  /\ n \in Serves /\ n.busy = v.busy /\ n.selected = v.selected /\ n.found = v.found
                /\ n.response = FALSE /\ n.key = v.key /\ n.start = v.start /\ n.length = v.length
         /\ LET n == Primed(v)
            IN  /\ n \in Serves /\ n.busy = v.busy /\ n.selected = v.selected /\ n.found = v.found
                /\ n.response = FALSE /\ n.key = v.key /\ n.slot = v.slot
         /\ ~ServeScanned(v) =>
              LET n == Advanced(v)
              IN  /\ n \in Serves /\ n.busy = v.busy /\ n.selected = v.selected /\ n.found = v.found
                  /\ n.response = FALSE /\ n.key = v.key /\ n.slot = v.slot + 1
  <1>1. ~ServeScanned(v) => v.slot + 1 \in Entry
    BY Sizes, ServeParts DEF Entry, ServeScanned
  <1> QED
    BY <1>1, Zenon DEF Serves, Held, Primed, Advanced

\* The clone's port keeps its types.
LEMMA ServeTyped ==
  ASSUME NEW s \in Stores, NEW x, x.serve_request \in KeyNames
  PROVE  ServeStep(s, x) \in Serves
  <1> DEFINE v == s.serve
             d == s.directory[v.slot]
  <1>1. v \in Serves
    BY StoreParts
  <1>2. d \in Records
    BY <1>1, StoreParts, ServeParts
  <1>3. Unselected(v) \in Serves /\ Sought(v, x.serve_request) \in Serves
        /\ Selected(v, d) \in Serves /\ Missed(v) \in Serves
    BY <1>1, <1>2, ServeFields
  <1>4. Held(v) \in Serves /\ Primed(v) \in Serves /\ (~ServeScanned(v) => Advanced(v) \in Serves)
    BY <1>1, ServeMoves
  <1> QED
    BY <1>3, <1>4, ServeCases

-----------------------------------------------------------------------------
(***************************************************************************)
(* What the writer does in a cycle, and what it makes of the store.        *)
(***************************************************************************)

\* What the store sees of the writer and the exporter, and of the streamer.
WriterSees(x, offer) ==
    /\ offer \in BOOLEAN
    /\ x.clear <=> writer.phase \in {"clear", "drop"}
    /\ x.abort <=> writer.phase \in {"clear", "drop", "abort"}
    /\ x.commit <=> writer.phase = "commit"
    /\ x.start \in KeyNames
    /\ writer.phase = "start" => x.start = current[1] /\ x.start # NoKey
    /\ writer.phase # "start" => x.start = NoKey
    /\ x.data \in Bytes
    /\ offer => /\ writer.phase = "data" /\ writer.bytes < current[2]
                /\ x.data = <<current[1], writer.session, writer.bytes>> /\ x.data # NoByte
    /\ ~offer => x.data = NoByte
    /\ x.request \in Pendings
    /\ writer.phase \notin {"up", "drop"} => x.request = NoRequest
    /\ x.request = export_request(exporter)

ServeSees(x, i) ==
    /\ x.serve_request = serve_request(streamer, i) /\ x.serve_request \in KeyNames
    /\ x.serve_cancel <=> serve_cancel(streamer, i)
    /\ x.offset = serve_offset(streamer, i) /\ x.offset \in Nat
    /\ x.read_enable <=> serve_read_enable(streamer, i)

\* A cycle of the writer and the store.
StoreCycle(x, offer) ==
    /\ WriterSees(x, offer) /\ x.serve_request \in KeyNames /\ x.offset \in Nat
    /\ store' = StoreStep(store, x)
    /\ WriterNext(offer)

\* The parts of the writer.
LEMMA WriterParts ==
  ASSUME Shape
  PROVE  /\ writer \in Writers /\ writer.session \in 0..Len(Scripts) /\ writer.session \in Nat
         /\ writer.done \in Nat /\ writer.done + 1 \in Nat
         /\ writer.bytes \in Nat /\ writer.bytes + 1 \in Nat
         /\ writer.phase \in {"off", "drop", "clear", "wait", "start", "data", "commit", "abort",
                              "up", "error"}
         /\ Len(Scripts) \in Nat
  BY ServeAssumption DEF Shape, Writers

\* A device's script, and the descriptor that is captured.
LEMMA ScriptParts ==
  ASSUME Shape, WriterPlaced
  PROVE  /\ writer.session # 0 => script \in Seq(Keys \X (Nat \ {0})) /\ Len(script) \in Nat
                                  /\ DOMAIN script = 1..Len(script)
         /\ writer.phase \in {"start", "data", "commit"} =>
              /\ current[1] \in Keys /\ current[1] \in KeyNames /\ current[1] # NoKey
              /\ current[2] \in Nat /\ current[2] # 0
              /\ current = <<current[1], current[2]>> /\ writer.done + 1 \in DOMAIN script
  <1>1. writer.session # 0 => script \in Seq(Keys \X (Nat \ {0}))
    BY WriterParts, ServeAssumption DEF script
  <1>2. writer.session # 0 => Len(script) \in Nat /\ DOMAIN script = 1..Len(script)
    BY <1>1
  <1>3. CASE writer.phase \in {"start", "data", "commit"}
    <2>1. writer.session # 0 /\ writer.done < Len(script)
      BY <1>3 DEF WriterPlaced
    <2>2. writer.done + 1 \in DOMAIN script
      BY <1>2, <2>1, WriterParts
    <2>3. current \in Keys \X (Nat \ {0})
      BY <1>1, <2>1, <2>2 DEF current
    <2> QED
      BY <1>1, <1>2, <2>2, <2>3, Sizes DEF KeyNames
  <1> QED
    BY <1>1, <1>2, <1>3

\* The writer's moves.
WriterMoved ==
    \/ writer' = writer /\ writer.phase \in {"off", "wait", "up", "error"}
    \/ /\ writer.phase \in {"off", "wait", "data"} /\ writer.session < Len(Scripts)
       /\ writer' = [Unplugged EXCEPT !.phase = "clear", !.session = writer.session + 1]
    \/ /\ writer.phase \in {"wait", "data", "up", "error"}
       /\ writer' = [Unplugged EXCEPT !.phase = "drop", !.session = writer.session]
    \/ writer.phase = "drop" /\ writer' = [writer EXCEPT !.phase = "off"]
    \/ writer.phase = "clear" /\ writer' = [writer EXCEPT !.phase = "wait"]
    \/ writer.phase = "wait" /\ writer.done = Len(script)
       /\ writer' = [writer EXCEPT !.phase = "up", !.bytes = 0]
    \/ writer.phase = "wait" /\ writer.done # Len(script)
       /\ writer' = [writer EXCEPT !.phase = "start", !.bytes = 0]
    \/ writer.phase = "start" /\ writer' = [writer EXCEPT !.phase = "data"]
    \/ writer.phase = "commit" /\ writer' = [writer EXCEPT !.phase = "wait", !.done = @ + 1]
    \/ writer.phase = "abort" /\ writer' = [writer EXCEPT !.phase = "error"]
    \/ writer.phase = "data" /\ store.capture.overflow /\ writer' = [writer EXCEPT !.phase = "abort"]

Counts(offer) == offer /\ capture_ready(store)
Taken(offer) == [writer EXCEPT !.bytes = IF Counts(offer) THEN writer.bytes + 1 ELSE writer.bytes]
WriterTakes(offer) ==
    /\ writer.phase = "data" /\ ~store.capture.overflow
    /\ \/ writer' = Taken(offer)
       \/ Taken(offer).bytes = current[2] /\ writer' = [Taken(offer) EXCEPT !.phase = "commit"]

\* A cycle of the writer is one of its moves, or takes a device's byte.
LEMMA WriterCases ==
  ASSUME Shape, NEW offer, WriterNext(offer)
  PROVE  WriterMoved \/ WriterTakes(offer)
  <1>1. writer.phase \in {"off", "drop", "clear", "wait", "start", "data", "commit", "abort",
                          "up", "error"}
    BY WriterParts
  <1>2. CASE writer.phase = "off"
    BY <1>2 DEF WriterNext, WriterMoved
  <1>3. CASE writer.phase = "drop"
    BY <1>3 DEF WriterNext, WriterMoved
  <1>4. CASE writer.phase = "clear"
    BY <1>4 DEF WriterNext, WriterMoved
  <1>5. CASE writer.phase = "wait"
    <2>1. \/ UNCHANGED writer
          \/ Broken
          \/ writer' = [writer EXCEPT !.bytes = 0,
                          !.phase = IF writer.done = Len(script) THEN "up" ELSE "start"]
      BY <1>5 DEF WriterNext
    <2>2. [writer EXCEPT !.bytes = 0, !.phase = "up"] = [writer EXCEPT !.phase = "up", !.bytes = 0]
          /\ [writer EXCEPT !.bytes = 0, !.phase = "start"]
               = [writer EXCEPT !.phase = "start", !.bytes = 0]
      BY WriterParts DEF Writers
    <2> QED
      BY <1>5, <2>1, <2>2 DEF Broken, WriterMoved
  <1>6. CASE writer.phase = "start"
    BY <1>6 DEF WriterNext, WriterMoved
  <1>7. CASE writer.phase = "data"
    <2>1. Taken(offer) = [writer EXCEPT !.bytes = IF offer /\ capture_ready(store) THEN @ + 1 ELSE @]
      BY DEF Taken, Counts
    <2>2. \/ store.capture.overflow /\ writer' = [writer EXCEPT !.phase = "abort"]
          \/ ~store.capture.overflow /\ writer' = Taken(offer)
          \/ /\ ~store.capture.overflow /\ Taken(offer).bytes = current[2]
             /\ writer' = [Taken(offer) EXCEPT !.phase = "commit"]
          \/ Broken
      BY <1>7, <2>1 DEF WriterNext
    <2> QED
      BY <1>7, <2>2 DEF Broken, WriterMoved, WriterTakes
  <1>8. CASE writer.phase = "commit"
    BY <1>8 DEF WriterNext, WriterMoved
  <1>9. CASE writer.phase = "abort"
    BY <1>9 DEF WriterNext, WriterMoved
  <1>10. CASE writer.phase \in {"up", "error"}
    BY <1>10 DEF WriterNext, WriterMoved
  <1> QED
    BY <1>1, <1>2, <1>3, <1>4, <1>5, <1>6, <1>7, <1>8, <1>9, <1>10

\* The registers of the writer after each of its moves.
LEMMA MovedFields ==
  ASSUME Shape, WriterMoved
  PROVE  /\ writer' \in Writers
         /\ \/ writer' = writer /\ writer.phase \in {"off", "wait", "up", "error"}
            \/ /\ writer.phase \in {"off", "wait", "data"} /\ writer'.phase = "clear"
               /\ writer'.session = writer.session + 1 /\ writer'.done = 0 /\ writer'.bytes = 0
            \/ /\ writer.phase \in {"wait", "data", "up", "error"} /\ writer'.phase = "drop"
               /\ writer'.session = writer.session /\ writer'.done = 0 /\ writer'.bytes = 0
            \/ /\ writer'.session = writer.session /\ writer'.done = writer.done
               /\ \/ writer.phase = "drop" /\ writer'.phase = "off" /\ writer'.bytes = writer.bytes
                  \/ writer.phase = "clear" /\ writer'.phase = "wait" /\ writer'.bytes = writer.bytes
                  \/ writer.phase = "wait" /\ writer'.phase = "up" /\ writer'.bytes = 0
                     /\ writer.done = Len(script)
                  \/ writer.phase = "wait" /\ writer'.phase = "start" /\ writer'.bytes = 0
                     /\ writer.done # Len(script)
                  \/ writer.phase = "start" /\ writer'.phase = "data" /\ writer'.bytes = writer.bytes
                  \/ writer.phase = "abort" /\ writer'.phase = "error" /\ writer'.bytes = writer.bytes
                  \/ writer.phase = "data" /\ writer'.phase = "abort" /\ writer'.bytes = writer.bytes
                     /\ store.capture.overflow
            \/ /\ writer.phase = "commit" /\ writer'.phase = "wait"
               /\ writer'.session = writer.session /\ writer'.done = writer.done + 1
               /\ writer'.bytes = writer.bytes
  <1>1. writer \in Writers /\ writer.session \in 0..Len(Scripts) /\ writer.done \in Nat
        /\ writer.bytes \in Nat /\ writer.done + 1 \in Nat /\ Len(Scripts) \in Nat
    BY WriterParts
  <1>2. Unplugged \in Writers
    BY <1>1 DEF Unplugged, Writers
  <1>3. Unplugged.done = 0 /\ Unplugged.bytes = 0
    BY DEF Unplugged
  <1>4. CASE writer' = writer /\ writer.phase \in {"off", "wait", "up", "error"}
    BY <1>1, <1>4
  <1>5. CASE /\ writer.phase \in {"off", "wait", "data"} /\ writer.session < Len(Scripts)
             /\ writer' = [Unplugged EXCEPT !.phase = "clear", !.session = writer.session + 1]
    <2>1. writer.session + 1 \in 0..Len(Scripts)
      BY <1>1, <1>5
    <2>2. /\ writer' \in Writers /\ writer'.phase = "clear" /\ writer'.session = writer.session + 1
          /\ writer'.done = Unplugged.done /\ writer'.bytes = Unplugged.bytes
      BY <1>2, <1>5, <2>1, Zenon DEF Writers
    <2> QED
      BY <1>3, <1>5, <2>2
  <1>6. CASE /\ writer.phase \in {"wait", "data", "up", "error"}
             /\ writer' = [Unplugged EXCEPT !.phase = "drop", !.session = writer.session]
    <2>1. /\ writer' \in Writers /\ writer'.phase = "drop" /\ writer'.session = writer.session
          /\ writer'.done = Unplugged.done /\ writer'.bytes = Unplugged.bytes
      BY <1>1, <1>2, <1>6, Zenon DEF Writers
    <2> QED
      BY <1>3, <1>6, <2>1
  <1>7. CASE writer.phase = "drop" /\ writer' = [writer EXCEPT !.phase = "off"]
    BY <1>1, <1>7, Zenon DEF Writers
  <1>8. CASE writer.phase = "clear" /\ writer' = [writer EXCEPT !.phase = "wait"]
    BY <1>1, <1>8, Zenon DEF Writers
  <1>9. CASE writer.phase = "wait" /\ writer.done = Len(script)
             /\ writer' = [writer EXCEPT !.phase = "up", !.bytes = 0]
    BY <1>1, <1>9, Zenon DEF Writers
  <1>10. CASE writer.phase = "wait" /\ writer.done # Len(script)
              /\ writer' = [writer EXCEPT !.phase = "start", !.bytes = 0]
    BY <1>1, <1>10, Zenon DEF Writers
  <1>11. CASE writer.phase = "start" /\ writer' = [writer EXCEPT !.phase = "data"]
    BY <1>1, <1>11, Zenon DEF Writers
  <1>12. CASE writer.phase = "commit" /\ writer' = [writer EXCEPT !.phase = "wait", !.done = @ + 1]
    BY <1>1, <1>12, Zenon DEF Writers
  <1>13. CASE writer.phase = "abort" /\ writer' = [writer EXCEPT !.phase = "error"]
    BY <1>1, <1>13, Zenon DEF Writers
  <1>14. CASE writer.phase = "data" /\ store.capture.overflow
              /\ writer' = [writer EXCEPT !.phase = "abort"]
    BY <1>1, <1>14, Zenon DEF Writers
  <1> QED
    BY <1>4, <1>5, <1>6, <1>7, <1>8, <1>9, <1>10, <1>11, <1>12, <1>13, <1>14 DEF WriterMoved

\* The writer after a byte is offered.
LEMMA TakesFields ==
  ASSUME Shape, NEW offer, WriterTakes(offer)
  PROVE  /\ writer' \in Writers
         /\ writer'.session = writer.session /\ writer'.done = writer.done
         /\ writer'.bytes = IF Counts(offer) THEN writer.bytes + 1 ELSE writer.bytes
         /\ writer'.phase = "data" \/ (writer'.phase = "commit" /\ writer'.bytes = current[2])
  <1> DEFINE b == IF Counts(offer) THEN writer.bytes + 1 ELSE writer.bytes
  <1>1. writer \in Writers /\ b \in Nat /\ writer.phase = "data"
    BY WriterParts DEF WriterTakes
  <1>2. Taken(offer) = [writer EXCEPT !.bytes = b]
    BY DEF Taken
  <1> HIDE DEF b
  <1>3. /\ Taken(offer) \in Writers /\ Taken(offer).bytes = b /\ Taken(offer).phase = "data"
        /\ Taken(offer).session = writer.session /\ Taken(offer).done = writer.done
    BY <1>1, <1>2, Zenon DEF Writers
  <1> DEFINE t == Taken(offer)
  <1> HIDE DEF t
  <1>4. t \in Writers => LET w == [t EXCEPT !.phase = "commit"]
        IN  /\ w \in Writers /\ w.bytes = t.bytes /\ w.phase = "commit"
            /\ w.session = t.session /\ w.done = t.done
    BY DEF Writers
  <1>5. writer' = t \/ (t.bytes = current[2] /\ writer' = [t EXCEPT !.phase = "commit"])
    BY DEF WriterTakes, t
  <1> QED
    BY <1>3, <1>4, <1>5 DEF t, b

\* The writer stays where it is in the script of its device.
LEMMA WriterPlacedNext ==
  ASSUME Shape, WriterPlaced, NEW offer, WriterNext(offer)
  PROVE  writer' \in Writers /\ WriterPlaced'
  <1>1. writer'.session = writer.session => script' = script
    BY DEF script
  <1>2. writer.session # 0 => Len(script) \in Nat
    BY ScriptParts
  <1>3. CASE WriterTakes(offer)
    <2>1. writer.phase = "data"
      BY <1>3 DEF WriterTakes
    <2> QED
      BY <1>1, <1>3, <2>1, TakesFields DEF WriterPlaced
  <1>4. CASE WriterMoved
    <2>1. writer' \in Writers
      BY <1>4, MovedFields
    <2> QED
      BY <1>1, <1>2, <1>4, <2>1, MovedFields, WriterParts DEF WriterPlaced
  <1> QED
    BY <1>3, <1>4, WriterCases

\* The inputs of a cycle are of their types, and are what the parts put there.
LEMMA InputsSeen ==
  ASSUME Shape, WriterPlaced, QuietUnlessUp, NEW offer \in {FALSE, Offers},
         NEW received, NEW start, NEW ready
  PROVE  LET i == Inputs(received, start, ready)
             x == StoreInputs(offer, i)
         IN  WriterSees(x, offer) /\ ServeSees(x, i)
  <1> DEFINE i == Inputs(received, start, ready)
             x == StoreInputs(offer, i)
  <1>1. /\ x.clear <=> writer.phase \in {"clear", "drop"}
        /\ x.abort <=> writer.phase \in {"clear", "drop", "abort"}
        /\ x.start = (IF writer.phase = "start" THEN current[1] ELSE NoKey)
        /\ x.commit <=> writer.phase = "commit"
        /\ x.data = (IF offer THEN ByteOffered ELSE NoByte) /\ x.request = export_request(exporter)
        /\ x.serve_request = serve_request(streamer, i) /\ x.offset = serve_offset(streamer, i)
        /\ x.serve_cancel = serve_cancel(streamer, i)
        /\ x.read_enable = serve_read_enable(streamer, i)
    BY SeenInputs
  <1>2. offer => writer.phase = "data" /\ writer.bytes < current[2]
    BY DEF Offers
  <1>3. writer.phase = "data" => ByteOffered \in Bytes /\ ByteOffered # NoByte
    <2> SUFFICES ASSUME writer.phase = "data" PROVE ByteOffered \in Bytes /\ ByteOffered # NoByte
      OBVIOUS
    <2>1. current[1] \in KeyNames /\ writer.session \in Nat /\ writer.bytes \in Nat
          /\ current[1] # NoKey
      BY ScriptParts, WriterParts
    <2> QED
      BY <2>1 DEF ByteOffered, Bytes, NoByte
  <1>4. i.key = pc.key /\ i.start_position = pc.position
    BY DEF Inputs
  <1>5. pc.key \in KeyNames /\ pc.position \in Nat
    BY DEF Shape, Transfers
  <1>6. x.serve_request \in KeyNames
    BY <1>1, <1>4, <1>5, ResetTypes DEF serve_request
  <1>7. streamer.pos \in Nat /\ streamer.pos + 1 \in Nat
    BY DEF Shape, Streamers
  <1>8. x.offset \in Nat
    BY <1>1, <1>4, <1>5, <1>7 DEF serve_offset
  <1>9. /\ x.request \in Pendings
        /\ writer.phase \notin {"up", "drop"} => x.request = NoRequest
    BY <1>1 DEF Shape, QuietUnlessUp, export_request, Pendings
  <1>10. writer.phase = "start" => current[1] \in KeyNames /\ current[1] # NoKey
    BY ScriptParts
  <1> HIDE DEF x, i
  <1>11. x.start \in KeyNames /\ x.data \in Bytes
    BY <1>1, <1>2, <1>3, <1>10, ResetTypes
  <1>12. offer => x.data = <<current[1], writer.session, writer.bytes>> /\ x.data # NoByte
    BY <1>1, <1>2, <1>3 DEF ByteOffered
  <1>13. offer \in BOOLEAN
    BY DEF Offers
  <1>14. ServeSees(x, i)
    BY <1>1, <1>6, <1>8 DEF ServeSees
  <1>15. WriterSees(x, offer)
    BY <1>1, <1>2, <1>9, <1>10, <1>11, <1>12, <1>13 DEF WriterSees
  <1> QED
    BY <1>14, <1>15 DEF x, i

\* clear, whose byte is none: the store is emptied and the memory stays.
LEMMA ClearCycle ==
  ASSUME Shape, NEW x, NEW offer, StoreCycle(x, offer), writer.phase \in {"clear", "drop"}
  PROVE  /\ store'.directory = store.directory /\ store'.valid = {} /\ store'.memory = store.memory
         /\ store'.allocator = 0 /\ store'.capture = NoCapture /\ store'.admin = NoAdmin
         /\ store'.pending = NoRequest /\ store'.export = NoExport /\ store'.serve = NoServe
  <1>1. x.clear /\ x.data = NoByte
    BY DEF StoreCycle, WriterSees
  <1>2. store' = StoreStep(store, x) /\ store \in Stores
    BY DEF StoreCycle, Shape
  <1> QED
    BY <1>1, <1>2, ClearedFields DEF MemoryStep

\* The other cycles step the scans.
LEMMA ScanCycle ==
  ASSUME Shape, NEW x, NEW offer, StoreCycle(x, offer), writer.phase \notin {"clear", "drop"}
  PROVE  /\ ~x.clear
         /\ store'.directory = DirectoryStep(store, x)
         /\ store'.valid = IF capture_commit_ok(store, x)
                           THEN store.valid \cup {store.capture.slot} ELSE store.valid
         /\ store'.memory = MemoryStep(store, x) /\ store'.allocator = AllocatorStep(store, x)
         /\ store'.capture = CaptureStep(store, x)
         /\ store'.admin = AdminStep(store, x) /\ store'.pending = PendingStep(store, x)
         /\ store'.export = ExportStep(store, x) /\ store'.serve = ServeStep(store, x)
         /\ capture_commit_ok(store, x) => writer.phase = "commit"
  <1>1. ~x.clear /\ (x.commit <=> writer.phase = "commit")
    BY DEF StoreCycle, WriterSees
  <1>2. store' = StoreStep(store, x) /\ store \in Stores
    BY DEF StoreCycle, Shape
  <1>3. capture_commit_ok(store, x) => writer.phase = "commit"
    BY <1>1 DEF capture_commit_ok
  <1> QED
    BY <1>1, <1>2, <1>3, StoreFields

\* The cycles in which nothing is written: start opens a capture.
LEMMA StillCycle ==
  ASSUME Shape, CapturePlaced, NEW x, NEW offer, StoreCycle(x, offer),
         writer.phase \in {"off", "wait", "start", "up", "error"}
  PROVE  /\ ~capture_commit_ok(store, x) /\ ~store.capture.active
         /\ store'.directory = store.directory /\ store'.valid = store.valid
         /\ store'.memory = store.memory /\ store'.allocator = store.allocator
         /\ writer.phase # "start" => store'.capture = store.capture
         /\ writer.phase = "start" => store'.capture = Opened(store, x) /\ x.start = current[1]
  <1>1. /\ x.data = NoByte
        /\ writer.phase = "start" => x.start = current[1] /\ x.start # NoKey
        /\ writer.phase # "start" => x.start = NoKey
    BY DEF StoreCycle, WriterSees
  <1>2. store \in Stores /\ ~store.capture.active
    BY DEF Shape, CapturePlaced
  <1>3. ~capture_commit_ok(store, x)
    BY <1>2 DEF capture_commit_ok
  <1>4. AllocatorStep(store, x) = store.allocator /\ MemoryStep(store, x) = store.memory
        /\ DirectoryStep(store, x) = store.directory
    BY <1>1, <1>2, <1>3 DEF AllocatorStep, MemoryStep, DirectoryStep
  <1>5. (writer.phase # "start" => CaptureStep(store, x) = store.capture)
        /\ (writer.phase = "start" => CaptureStep(store, x) = Opened(store, x))
    BY <1>1, <1>2, CaptureCases
  <1> QED
    BY <1>1, <1>2, <1>3, <1>4, <1>5, ScanCycle

\* A cycle of phase data: a byte is written, or the scan goes on.
LEMMA DataCycle ==
  ASSUME Shape, CapturePlaced, NEW x, NEW offer, StoreCycle(x, offer), writer.phase = "data"
  PROVE  /\ ~capture_commit_ok(store, x)
         /\ store'.directory = store.directory /\ store'.valid = store.valid
         /\ Counts(offer) =>
              /\ store'.memory = [store.memory EXCEPT ![store.allocator] =
                                    <<current[1], writer.session, writer.bytes>>]
              /\ store'.allocator = store.allocator + 1 /\ store.allocator < StoreSize
              /\ store'.capture = Counted(store.capture) /\ store.capture.allocated
              /\ writer.bytes < current[2]
         /\ ~Counts(offer) =>
              /\ store'.memory = store.memory /\ store'.allocator = store.allocator
              /\ \/ store'.capture = Overflowed(store.capture) /\ store.capture.allocated
                 \/ store'.capture = Scanned(store)
  <1>1. /\ ~x.commit /\ ~x.abort /\ ~capture_commit_ok(store, x)
        /\ store'.directory = DirectoryStep(store, x)
        /\ store'.valid = IF capture_commit_ok(store, x)
                          THEN store.valid \cup {store.capture.slot} ELSE store.valid
        /\ store'.memory = MemoryStep(store, x) /\ store'.allocator = AllocatorStep(store, x)
        /\ store'.capture = CaptureStep(store, x)
    <2>1. ~x.commit /\ ~x.abort
      BY DEF StoreCycle, WriterSees
    <2> QED
      BY <2>1, ScanCycle
  <1>2. (offer => x.data = <<current[1], writer.session, writer.bytes>> /\ x.data # NoByte
                  /\ writer.bytes < current[2])
        /\ (~offer => x.data = NoByte)
    BY DEF StoreCycle, WriterSees
  <1>3. store.capture.active /\ store \in Stores
    BY DEF CapturePlaced, Capturing, Shape
  <1>4. CASE Counts(offer)
    <2>1. x.data # NoByte /\ capture_ready(store) /\ store.capture.allocated
          /\ store.allocator < StoreSize
      BY <1>2, <1>4 DEF Counts, capture_ready
    <2>2. CaptureStep(store, x) = Counted(store.capture)
      BY <1>1, <1>3, <2>1, CaptureCases
    <2> QED
      BY <1>1, <1>2, <1>3, <1>4, <2>1, <2>2 DEF MemoryStep, AllocatorStep, DirectoryStep, Counts
  <1>5. CASE ~Counts(offer)
    <2>1. ~(x.data # NoByte /\ capture_ready(store))
      BY <1>2, <1>5 DEF Counts
    <2>2. \/ CaptureStep(store, x) = Overflowed(store.capture) /\ store.capture.allocated
          \/ CaptureStep(store, x) = Scanned(store)
      BY <1>1, <1>3, <2>1, CaptureCases
    <2> QED
      BY <1>1, <1>3, <1>5, <2>1, <2>2 DEF MemoryStep, AllocatorStep, DirectoryStep
  <1> QED
    BY <1>4, <1>5

\* A cycle that ends a capture: its bytes become an entry, or are given back.
LEMMA EndCycle ==
  ASSUME Shape, CapturePlaced, NEW x, NEW offer, StoreCycle(x, offer),
         writer.phase \in {"commit", "abort"}
  PROVE  /\ store'.memory = store.memory
         /\ ~store'.capture.active /\ ~store'.capture.alloc_pending
         /\ capture_commit_ok(store, x) =>
              /\ writer.phase = "commit"
              /\ store'.directory = [store.directory EXCEPT ![store.capture.slot] =
                    [key |-> store.capture.key, start |-> store.capture.base,
                     length |-> store.capture.length]]
              /\ store'.valid = store.valid \cup {store.capture.slot}
              /\ store'.allocator = store.allocator
              /\ store.capture.active /\ store.capture.allocated /\ ~store.capture.rejected
         /\ ~capture_commit_ok(store, x) =>
              /\ store'.directory = store.directory /\ store'.valid = store.valid
              /\ store'.allocator = IF store.capture.active THEN store.capture.base
                                    ELSE store.allocator
  <1>1. /\ x.start = NoKey /\ x.data = NoByte
        /\ (x.commit <=> writer.phase = "commit") /\ (x.abort <=> writer.phase = "abort")
    BY DEF StoreCycle, WriterSees
  <1>2. store \in Stores /\ (~store.capture.active => ~store.capture.alloc_pending)
    BY DEF Shape, CapturePlaced
  <1>3. /\ capture_commit_ok(store, x) => writer.phase = "commit"
        /\ store'.directory = DirectoryStep(store, x)
        /\ store'.valid = IF capture_commit_ok(store, x)
                          THEN store.valid \cup {store.capture.slot} ELSE store.valid
        /\ store'.memory = MemoryStep(store, x) /\ store'.allocator = AllocatorStep(store, x)
        /\ store'.capture = CaptureStep(store, x)
    BY ScanCycle
  <1>4. ~CaptureStep(store, x).active /\ ~CaptureStep(store, x).alloc_pending
    BY <1>1, <1>2, CaptureCases, EndedFields
  <1>5. capture_commit_ok(store, x) => store.capture.active /\ store.capture.allocated
                                       /\ ~store.capture.rejected
    BY DEF capture_commit_ok
  <1> QED
    BY <1>1, <1>2, <1>3, <1>4, <1>5 DEF MemoryStep, AllocatorStep, DirectoryStep
\* The script is the device's, the descriptor the one the writer is at.
LEMMA CurrentStays ==
  ASSUME writer'.session = writer.session
  PROVE  script' = script /\ (writer'.done = writer.done => current' = current)
  BY DEF script, current

\* A cycle of phase data leaves the capture open, for the same key and place.
LEMMA DataFields ==
  ASSUME Shape, CapturePlaced, NEW x, NEW offer, StoreCycle(x, offer), writer.phase = "data"
  PROVE  /\ store'.capture.active /\ store.capture.active
         /\ store'.capture.key = store.capture.key /\ store'.capture.base = store.capture.base
         /\ store'.capture.length = IF Counts(offer) THEN store.capture.length + 1
                                    ELSE store.capture.length
         /\ store'.allocator = IF Counts(offer) THEN store.allocator + 1 ELSE store.allocator
         /\ Counts(offer) => store.capture.allocated /\ writer.bytes < current[2]
                             /\ ~store.capture.overflow
  <1>1. store \in Stores /\ store.capture \in Captures /\ store.capture.active
    BY StoreParts DEF Shape, CapturePlaced, Capturing
  <1>2. CASE Counts(offer)
    <2>1. ~store.capture.overflow
      BY <1>2 DEF Counts, capture_ready
    <2>2. /\ store'.capture = Counted(store.capture) /\ store.capture.allocated
          /\ writer.bytes < current[2] /\ store'.allocator = store.allocator + 1
      BY <1>2, DataCycle
    <2> QED
      BY <1>1, <1>2, <2>1, <2>2, CountedFields
  <1>3. CASE ~Counts(offer)
    <2>1. /\ store'.allocator = store.allocator
          /\ store'.capture = Overflowed(store.capture) \/ store'.capture = Scanned(store)
      BY <1>3, DataCycle
    <2>2. LET o == Overflowed(store.capture)
          IN  /\ o.active = store.capture.active /\ o.key = store.capture.key
              /\ o.base = store.capture.base /\ o.length = store.capture.length
      BY <1>1, CountedFields
    <2>3. LET n == Scanned(store)
          IN  /\ n.active = store.capture.active /\ n.key = store.capture.key
              /\ n.base = store.capture.base /\ n.length = store.capture.length
      BY <1>1, ScannedFields
    <2>4. /\ store'.capture.active = store.capture.active
          /\ store'.capture.key = store.capture.key /\ store'.capture.base = store.capture.base
          /\ store'.capture.length = store.capture.length
      BY <2>1, <2>2, <2>3
    <2> QED
      BY <1>1, <1>3, <2>1, <2>4
  <1> QED
    BY <1>2, <1>3

\* The capture follows the writer.
LEMMA CapturePlacedNext ==
  ASSUME Shape, WriterPlaced, CapturePlaced, NEW x, NEW offer, StoreCycle(x, offer)
  PROVE  CapturePlaced'
  <1>1. WriterMoved \/ WriterTakes(offer)
    BY WriterCases DEF StoreCycle
  <1>2. writer.phase \in {"off", "drop", "clear", "wait", "start", "data", "commit", "abort",
                          "up", "error"}
    BY WriterParts
  <1>3. CASE writer.phase \in {"clear", "drop"}
    <2>1. store'.capture = NoCapture
      BY <1>3, ClearCycle
    <2>2. writer'.phase \in {"wait", "off"}
      BY <1>1, <1>3, MovedFields DEF WriterTakes
    <2> QED
      BY <2>1, <2>2 DEF NoCapture, CapturePlaced, Capturing
  <1>4. CASE writer.phase \in {"off", "wait", "up", "error"}
    <2>1. store'.capture = store.capture /\ ~store.capture.active
      BY <1>4, StillCycle
    <2>2. /\ writer'.phase \notin {"data", "commit", "abort"}
          /\ writer'.phase = "start" => writer'.bytes = 0
      BY <1>1, <1>4, MovedFields DEF WriterTakes
    <2> QED
      BY <2>1, <2>2 DEF CapturePlaced, Capturing
  <1>5. CASE writer.phase = "start"
    <2>1. /\ store'.capture = Opened(store, x) /\ x.start = current[1]
          /\ store'.allocator = store.allocator
      BY <1>5, StillCycle
    <2>2. x.start \in KeyNames /\ store \in Stores /\ store.allocator \in Nat
      BY StoreParts DEF StoreCycle, WriterSees, Shape
    <2>3. /\ store'.capture.active /\ store'.capture.alloc_pending
          /\ store'.capture.key = current[1] /\ store'.capture.base = store.allocator
          /\ store'.capture.length = 0
      BY <2>1, <2>2, OpenedFields
    <2>4. /\ writer'.phase = "data" /\ writer'.bytes = 0
          /\ writer'.session = writer.session /\ writer'.done = writer.done
      BY <1>1, <1>5, MovedFields DEF WriterTakes, CapturePlaced
    <2>5. current' = current /\ current[2] \in Nat
      BY <1>5, <2>4, CurrentStays, ScriptParts
    <2> QED
      BY <2>1, <2>2, <2>3, <2>4, <2>5 DEF CapturePlaced, Capturing
  <1>6. CASE writer.phase = "data"
    <2>1. /\ store'.capture.active /\ store.capture.active
          /\ store'.capture.key = store.capture.key /\ store'.capture.base = store.capture.base
          /\ store'.capture.length = IF Counts(offer) THEN store.capture.length + 1
                                     ELSE store.capture.length
          /\ store'.allocator = IF Counts(offer) THEN store.allocator + 1 ELSE store.allocator
          /\ Counts(offer) => writer.bytes < current[2]
      BY <1>6, DataFields
    <2>2. store.capture.length \in Nat /\ store.capture.base \in Nat /\ store.allocator \in Nat
          /\ writer.bytes \in Nat /\ current[2] \in Nat
      BY <1>6, StoreParts, CaptureParts, WriterParts, ScriptParts DEF Shape
    <2>3. /\ store.allocator = store.capture.base + store.capture.length
          /\ store.capture.key = current[1] /\ store.capture.length = writer.bytes
          /\ writer.bytes <= current[2]
      BY <1>6, <2>1 DEF CapturePlaced, Capturing
    <2>4. store'.allocator = store'.capture.base + store'.capture.length
      BY <2>1, <2>2, <2>3
    <2>5. CASE WriterTakes(offer)
      <3>1. /\ writer'.session = writer.session /\ writer'.done = writer.done
            /\ writer'.bytes = IF Counts(offer) THEN writer.bytes + 1 ELSE writer.bytes
            /\ writer'.phase = "data" \/ (writer'.phase = "commit" /\ writer'.bytes = current[2])
        BY <2>5, TakesFields
      <3>2. current' = current
        BY <3>1, CurrentStays
      <3> QED
        BY <2>1, <2>2, <2>3, <2>4, <3>1, <3>2 DEF CapturePlaced, Capturing
    <2>6. CASE WriterMoved
      <3>1. writer'.phase \in {"clear", "drop", "abort"}
        BY <1>6, <2>6, MovedFields
      <3> QED
        BY <2>1, <2>4, <3>1 DEF CapturePlaced, Capturing
    <2> QED
      BY <1>1, <2>5, <2>6
  <1>7. CASE writer.phase \in {"commit", "abort"}
    <2>1. ~store'.capture.active /\ ~store'.capture.alloc_pending
      BY <1>7, EndCycle
    <2>2. writer'.phase \in {"wait", "error"}
      BY <1>1, <1>7, MovedFields DEF WriterTakes
    <2> QED
      BY <2>1, <2>2 DEF CapturePlaced, Capturing
  <1> QED
    BY <1>2, <1>3, <1>4, <1>5, <1>6, <1>7
\* A scan that waits, when the exporter asks for nothing and no capture opens.
LEMMA IdleScan ==
  ASSUME Shape, NEW x, store.pending = NoRequest,
         store.admin.state = "IDLE", ~store.capture.alloc_pending
  PROVE  AdminStep(store, x) = store.admin
  <1>1. store \in Stores
    BY DEF Shape
  <1> QED
    BY <1>1, AdminCases

\* While the device is not up nothing is read, and no scan is for the exporter.
LEMMA QuietCycle ==
  ASSUME Shape, CapturePlaced, QuietUnlessUp, ServeTrue, NEW x, NEW offer, StoreCycle(x, offer),
         writer.phase # "up", x.serve_request = NoKey, ~x.serve_cancel
  PROVE  /\ store'.pending = NoRequest /\ ~store'.export.valid
         /\ ~store'.serve.busy /\ ~store'.serve.selected /\ ~store'.serve.found
         /\ ~store'.serve.response
         /\ store'.admin.state \in {"IDLE", "CAPTURE"}
  <1>1. CASE writer.phase \in {"clear", "drop"}
    <2>1. /\ store'.admin = NoAdmin /\ store'.pending = NoRequest
          /\ store'.export = NoExport /\ store'.serve = NoServe
      BY <1>1, ClearCycle
    <2> QED
      BY <2>1 DEF NoAdmin, NoExport, NoServe
  <1>2. CASE writer.phase \notin {"clear", "drop"}
    <2>1. /\ store'.admin = AdminStep(store, x) /\ store'.pending = PendingStep(store, x)
          /\ store'.export = ExportStep(store, x) /\ store'.serve = ServeStep(store, x)
      BY <1>2, ScanCycle
    <2>2. /\ store.pending = NoRequest /\ ~store.export.valid
          /\ ~store.serve.busy /\ ~store.serve.selected /\ ~store.serve.response
          /\ ~store.serve.found
          /\ store.admin.state \in {"IDLE", "CAPTURE"}
      BY <1>2 DEF QuietUnlessUp, ServeTrue
    <2>3. x.request = NoRequest /\ store \in Stores
      BY <1>2 DEF StoreCycle, WriterSees, Shape
    <2>4. PendingStep(store, x) = NoRequest
      BY <2>2, <2>3 DEF PendingStep
    <2>5. ~ExportStep(store, x).valid
      <3>1. store.export \in Exports
        BY <2>3, StoreParts
      <3>2. ExportStep(store, x) = [store.export EXCEPT !.response = FALSE,
                                       !.valid = @ /\ ~capture_commit_ok(store, x)]
        BY <2>2 DEF ExportStep
      <3> QED
        BY <2>2, <3>1, <3>2 DEF Exports
    <2>6. LET v == ServeStep(store, x)
          IN  ~v.busy /\ ~v.selected /\ ~v.found /\ ~v.response
      <3>1. store.serve \in Serves
        BY <2>3, StoreParts
      <3>2. ServeStep(store, x) = Unselected(store.serve) \/ ServeStep(store, x) = Held(store.serve)
        BY <2>2, <2>3, ServeCases DEF Asking
      <3>3. LET u == Unselected(store.serve)
            IN  ~u.busy /\ ~u.selected /\ ~u.found /\ ~u.response
        BY <3>1, ServeFields
      <3>4. LET u == Held(store.serve)
            IN  ~u.busy /\ ~u.selected /\ ~u.found /\ ~u.response
        BY <2>2, <3>1, ServeMoves
      <3> QED
        BY <3>2, <3>3, <3>4
    <2>7. AdminStep(store, x).state \in {"IDLE", "CAPTURE"}
      <3>1. CASE store.admin.state = "IDLE" /\ ~store.capture.alloc_pending
        BY <2>2, <3>1, IdleScan
      <3>2. CASE store.admin.state = "IDLE" /\ store.capture.alloc_pending
        <4>1. AdminStep(store, x) = [NoAdmin EXCEPT !.state = "CAPTURE", !.key = store.capture.key]
          BY <2>3, <3>2, AdminCases
        <4> QED
          BY <4>1 DEF NoAdmin
      <3>3. CASE store.admin.state = "CAPTURE" /\ AdminEnds(store, x)
        <4>1. AdminStep(store, x) = NoAdmin
          BY <2>3, <3>3, AdminCases
        <4> QED
          BY <4>1 DEF NoAdmin
      <3>4. CASE store.admin.state = "CAPTURE" /\ ~AdminEnds(store, x)
        <4>1. AdminStep(store, x) = Looked(store)
          BY <2>3, <3>4, AdminCases
        <4>2. Looked(store).state = store.admin.state
          BY <2>3, <3>4, LookedFields
        <4> QED
          BY <3>4, <4>1, <4>2
      <3> QED
        BY <2>2, <3>1, <3>2, <3>3, <3>4
    <2> QED
      BY <2>1, <2>4, <2>5, <2>6, <2>7
  <1> QED
    BY <1>1, <1>2
-----------------------------------------------------------------------------
(***************************************************************************)
(* The capture's scan finds the slot of the key, or a free one.            *)
(***************************************************************************)

\* Without a commit the directory keeps its entries.
LEMMA SameEntries ==
  ASSUME NEW s, NEW n, n.directory = s.directory, n.valid = s.valid
  PROVE  /\ \A key : MatchIn(n, key) = MatchIn(s, key)
         /\ \A key, start, length : EntryIn(n, key, start, length) <=> EntryIn(s, key, start, length)
  BY DEF MatchIn, EntryIn

\* The scan of a capture that is not allocated yet, at its next slot.
LEMMA ScanGoesOn ==
  ASSUME Shape, CapturePlaced, ScanPlaced, NEW x, NEW offer, StoreCycle(x, offer),
         writer.phase = "data", store.admin.state = "CAPTURE"
  PROVE  LET c == store'.capture
             a == store'.admin
             match == MatchIn(store, c.key)
         IN  /\ ~c.alloc_pending
             /\ c.key = store.capture.key /\ c.length = store.capture.length /\ c.length = 0
             /\ \/ /\ a.state = "CAPTURE" /\ a.key = c.key /\ ~c.allocated
                   /\ c.match = {j \in match : j < a.slot}
                   /\ c.free = {j \in Entry : j < a.slot} \ store.valid
                   /\ a.primed /\ a.record = store.directory[a.slot]
                \/ /\ a.state = "IDLE" /\ c.allocated
                   /\ c.rejected \/ c.slot \in match \/ (match = {} /\ c.slot \in Entry \ store.valid)
  <1> DEFINE key == store.capture.key
             slot == store.admin.slot
             match == MatchIn(store, key)
  <1>1. /\ store \in Stores /\ store.capture \in Captures /\ store.admin \in Admins
        /\ slot \in Entry /\ store.valid \in SUBSET Entry
    BY StoreParts, AdminParts DEF Shape
  <1>2. /\ store.capture.active /\ ~store.capture.alloc_pending /\ ~store.capture.allocated
        /\ store.capture.length = 0
        /\ store.admin.key = key
        /\ store.capture.match = {j \in match : j < slot}
        /\ store.capture.free = {j \in Entry : j < slot} \ store.valid
        /\ IF store.admin.primed THEN store.admin.record = store.directory[slot] ELSE slot = 0
    BY DEF ScanPlaced, CapturePlaced, Capturing, Match
  <1>3. ~Counts(offer) /\ ~x.abort /\ ~x.commit
    BY <1>2 DEF Counts, capture_ready, StoreCycle, WriterSees
  <1>4. store'.capture = Scanned(store) /\ store'.admin = AdminStep(store, x)
    BY <1>2, <1>3, DataCycle, ScanCycle
  <1>5. AdminEnds(store, x) <=> store.admin.primed /\ slot = Slots - 1
    BY <1>2, <1>3 DEF AdminEnds
  <1>6. CASE ~store.admin.primed
    <2>1. store'.capture = store.capture
      BY <1>2, <1>4, <1>6, <1>1, ScannedFields
    <2>2. store'.admin = Looked(store)
      BY <1>1, <1>4, <1>5, <1>6, AdminCases
    <2>3. SlotLooked(store) = slot
      BY <1>6 DEF SlotLooked
    <2>4. /\ store'.admin.state = "CAPTURE" /\ store'.admin.key = key /\ store'.admin.primed
          /\ store'.admin.slot = slot /\ store'.admin.record = store.directory[slot]
      BY <1>1, <1>2, <1>5, <1>6, <2>2, <2>3, LookedFields
    <2> QED
      BY <1>2, <2>1, <2>4
  <1>7. CASE store.admin.primed
    <2> DEFINE found == store.capture.match \cup (IF admin_matches(store) THEN {slot} ELSE {})
               free == store.capture.free \cup (IF slot \in store.valid THEN {} ELSE {slot})
    <2>1. admin_matches(store) <=> slot \in match
      BY <1>2, <1>7 DEF admin_matches, MatchIn
    <2>8. ASSUME NEW j \in Entry
          PROVE  (j <= slot <=> (j < slot \/ j = slot)) /\ (j <= slot <=> j < slot + 1)
      <3>1. j \in Nat /\ slot \in Nat
        BY <1>1, Sizes
      <3> HIDE DEF slot
      <3> QED
        BY <3>1
    <2>9. match \in SUBSET Entry
      BY <1>1 DEF MatchIn
    <2>2. found = {j \in match : j <= slot}
      <3>1. found = {j \in match : j < slot} \cup (IF slot \in match THEN {slot} ELSE {})
        BY <1>2, <2>1
      <3> HIDE DEF match, found, slot
      <3> QED
        BY <2>8, <2>9, <3>1, Zenon
    <2>3. free = {j \in Entry : j <= slot} \ store.valid
      <3>1. free = ({j \in Entry : j < slot} \ store.valid)
                     \cup (IF slot \in store.valid THEN {} ELSE {slot})
        BY <1>2
      <3> HIDE DEF free, slot
      <3> QED
        BY <1>1, <2>8, <3>1 DEF slot
    <2>4. store'.capture = Allocated(store)
      BY <1>1, <1>4, <1>7, ScannedFields
    <2>5. /\ Allocated(store).alloc_pending = store.capture.alloc_pending
          /\ Allocated(store).key = key /\ Allocated(store).length = store.capture.length
          /\ slot = Slots - 1 =>
               /\ Allocated(store).allocated = TRUE
               /\ Allocated(store).rejected = (found = {} /\ free = {})
               /\ ~(found = {} /\ free = {}) => Allocated(store).slot = Chosen(found, free)
          /\ slot # Slots - 1 =>
               /\ Allocated(store).match = found /\ Allocated(store).free = free
               /\ Allocated(store).allocated = store.capture.allocated
      BY <1>1, AllocatedFields
    <2>6. CASE slot = Slots - 1
      <3>1. store'.admin = NoAdmin
        BY <1>1, <1>4, <1>5, <1>7, <2>6, AdminCases
      <3>2. found = match /\ free = Entry \ store.valid
        <4>1. \A j \in Entry : j <= slot
          BY <2>6, Sizes DEF Entry
        <4> HIDE DEF found, free, match, slot
        <4> QED
          BY <2>2, <2>3, <2>9, <4>1
      <3>3. found # {} => Chosen(found, free) \in match
        BY <1>1, <3>2, FirstIn, Sizes DEF Chosen, MatchIn
      <3>4. found = {} /\ free # {} => Chosen(found, free) \in Entry \ store.valid
        BY <3>2, FirstIn, Sizes DEF Chosen
      <3> HIDE DEF found, free, match, slot, key
      <3>5. /\ ~store'.capture.alloc_pending /\ store'.capture.key = key
            /\ store'.capture.length = 0 /\ store'.capture.allocated
        BY <1>2, <2>4, <2>5, <2>6 DEF key
      <3>6. store'.admin.state = "IDLE"
        BY <3>1 DEF NoAdmin
      <3>7. ~store'.capture.rejected => store'.capture.slot = Chosen(found, free)
                                        /\ ~(found = {} /\ free = {})
        BY <2>4, <2>5, <2>6
      <3>8. \/ store'.capture.rejected \/ store'.capture.slot \in match
            \/ match = {} /\ store'.capture.slot \in Entry \ store.valid
        BY <3>2, <3>3, <3>4, <3>7
      <3>9. MatchIn(store, store'.capture.key) = match
        BY <3>5 DEF match
      <3> QED
        BY <1>2, <3>5, <3>6, <3>8, <3>9 DEF key
    <2>7. CASE slot # Slots - 1
      <3>1. store'.admin = Looked(store) /\ ~AdminEnds(store, x) /\ store.admin.state # "IDLE"
        BY <1>1, <1>4, <1>5, <2>7, AdminCases
      <3>2. SlotLooked(store) = slot + 1
        BY <1>7 DEF SlotLooked
      <3>3. /\ store'.admin.state = "CAPTURE" /\ store'.admin.key = key /\ store'.admin.primed
            /\ store'.admin.slot = slot + 1 /\ store'.admin.record = store.directory[slot + 1]
        BY <1>1, <1>2, <3>1, <3>2, LookedFields
      <3>4. found = {j \in match : j < slot + 1} /\ free = {j \in Entry : j < slot + 1} \ store.valid
        <4> HIDE DEF found, free, match, slot
        <4> QED
          BY <2>2, <2>3, <2>8, <2>9
      <3> HIDE DEF found, free, match, slot, key
      <3>5. /\ ~store'.capture.alloc_pending /\ store'.capture.key = key
            /\ store'.capture.length = 0 /\ ~store'.capture.allocated
            /\ store'.capture.match = found /\ store'.capture.free = free
        BY <1>2, <2>4, <2>5, <2>7 DEF key
      <3>6. MatchIn(store, store'.capture.key) = match
        BY <3>5 DEF match
      <3> QED
        BY <1>2, <3>3, <3>4, <3>5, <3>6 DEF key
    <2> QED
      BY <2>6, <2>7
  <1> QED
    BY <1>1, <1>6, <1>7, AdminParts
\* A scan that has ended, or not begun, in phase data.
LEMMA ScanRests ==
  ASSUME Shape, CapturePlaced, ScanPlaced, QuietUnlessUp, NEW x, NEW offer, StoreCycle(x, offer),
         writer.phase = "data", store.admin.state = "IDLE", ~store.capture.alloc_pending
  PROVE  /\ store'.admin.state = "IDLE" /\ ~store'.capture.alloc_pending
         /\ store'.capture.allocated = store.capture.allocated
         /\ store'.capture.rejected = store.capture.rejected
         /\ store'.capture.slot = store.capture.slot /\ store'.capture.key = store.capture.key
         /\ store'.capture.length # 0 => store'.capture.allocated
  <1>1. store \in Stores /\ store.capture \in Captures /\ store.capture.active
    BY StoreParts DEF Shape, CapturePlaced, Capturing
  <1>2. store'.admin.state = "IDLE"
    <2>1. store.pending = NoRequest
      BY DEF QuietUnlessUp
    <2> QED
      BY <2>1, ScanCycle, IdleScan
  <1>3. CASE Counts(offer)
    <2>1. store'.capture = Counted(store.capture) /\ store.capture.allocated
      BY <1>3, DataCycle
    <2>2. LET n == Counted(store.capture)
          IN  /\ n.key = store.capture.key /\ n.slot = store.capture.slot
              /\ n.alloc_pending = store.capture.alloc_pending
              /\ n.allocated = store.capture.allocated /\ n.rejected = store.capture.rejected
      BY <1>1, CountedFields
    <2> QED
      BY <1>2, <2>1, <2>2
  <1>4. CASE ~Counts(offer)
    <2>1. store'.capture = Overflowed(store.capture) \/ store'.capture = Scanned(store)
      BY <1>4, DataCycle
    <2>2. Scanned(store) = store.capture
      BY <1>1, ScannedFields
    <2>3. LET o == Overflowed(store.capture)
          IN  /\ o.length = store.capture.length /\ o.key = store.capture.key
              /\ o.slot = store.capture.slot /\ o.alloc_pending = store.capture.alloc_pending
              /\ o.allocated = store.capture.allocated /\ o.rejected = store.capture.rejected
      BY <1>1, CountedFields
    <2>4. store.capture.length # 0 => store.capture.allocated
      BY DEF ScanPlaced, Capturing
    <2> QED
      BY <1>2, <2>1, <2>2, <2>3, <2>4
  <1> QED
    BY <1>3, <1>4

\* The cycle in which the scan for the capture starts.
LEMMA ScanStarts ==
  ASSUME Shape, CapturePlaced, ScanPlaced, NEW x, NEW offer, StoreCycle(x, offer),
         writer.phase = "data", store.admin.state = "IDLE", store.capture.alloc_pending
  PROVE  LET c == store'.capture
             a == store'.admin
         IN  /\ a.state = "CAPTURE" /\ a.key = c.key /\ a.slot = 0 /\ ~a.primed
             /\ ~c.alloc_pending /\ ~c.allocated /\ c.length = 0
             /\ c.match = {} /\ c.free = {}
  <1>1. /\ store \in Stores /\ store.capture \in Captures /\ store.capture.active
        /\ ~store.capture.allocated /\ store.capture.length = 0
    BY StoreParts DEF Shape, CapturePlaced, ScanPlaced, Capturing
  <1>2. ~Counts(offer)
    BY <1>1 DEF Counts, capture_ready
  <1>3. store'.capture = Scanned(store)
    BY <1>1, <1>2, DataCycle
  <1>4. store'.admin = [NoAdmin EXCEPT !.state = "CAPTURE", !.key = store.capture.key]
    BY <1>1, ScanCycle, AdminCases
  <1>5. store.capture.key \in KeyNames
    BY <1>1, CaptureParts
  <1>6. /\ store'.admin.state = "CAPTURE" /\ store'.admin.key = store.capture.key
        /\ store'.admin.slot = 0 /\ store'.admin.primed = FALSE
    BY <1>4, <1>5, StartedScan
  <1> QED
    BY <1>1, <1>3, <1>6, ScannedFields

\* Where the scan is after a cycle of phase data.
LEMMA DataScan ==
  ASSUME Shape, CapturePlaced, ScanPlaced, QuietUnlessUp, NEW x, NEW offer, StoreCycle(x, offer),
         writer.phase = "data"
  PROVE  LET c == store'.capture
             a == store'.admin
             match == MatchIn(store', c.key)
         IN  /\ c.length # 0 => c.allocated
             /\ c.alloc_pending => a.state = "IDLE" /\ ~c.allocated
             /\ c.allocated => a.state = "IDLE"
             /\ a.state # "IDLE" =>
                  /\ a.state = "CAPTURE" /\ a.key = c.key
                  /\ c.match = {j \in match : j < a.slot}
                  /\ c.free = {j \in Entry : j < a.slot} \ store'.valid
                  /\ IF a.primed THEN a.record = store'.directory[a.slot] ELSE a.slot = 0
             /\ c.allocated /\ ~c.rejected =>
                  c.slot \in match \/ (match = {} /\ c.slot \notin store'.valid)
  <1>1. store'.directory = store.directory /\ store'.valid = store.valid
    BY DataCycle
  <1>2. \A key : MatchIn(store', key) = MatchIn(store, key)
    BY <1>1, SameEntries, Zenon
  <1>3. store.admin.state \in {"IDLE", "CAPTURE"}
    BY DEF ScanPlaced, Capturing
  <1>4. CASE store.admin.state = "CAPTURE"
    <2> DEFINE c == store'.capture
               a == store'.admin
    <2>1. /\ ~c.alloc_pending
          /\ c.key = store.capture.key /\ c.length = store.capture.length /\ c.length = 0
          /\ \/ /\ a.state = "CAPTURE" /\ a.key = c.key /\ ~c.allocated
                /\ c.match = {j \in MatchIn(store, c.key) : j < a.slot}
                /\ c.free = {j \in Entry : j < a.slot} \ store.valid
                /\ a.primed /\ a.record = store.directory[a.slot]
             \/ /\ a.state = "IDLE" /\ c.allocated
                /\ \/ c.rejected \/ c.slot \in MatchIn(store, c.key)
                   \/ MatchIn(store, c.key) = {} /\ c.slot \in Entry \ store.valid
      BY <1>4, ScanGoesOn
    <2>2. MatchIn(store', c.key) = MatchIn(store, c.key)
      BY <1>2
    <2> HIDE DEF c, a
    <2> QED
      BY <1>1, <2>1, <2>2 DEF c, a
  <1>5. CASE store.admin.state = "IDLE" /\ store.capture.alloc_pending
    <2>1. \A j \in Entry : ~(j < 0)
      BY DEF Entry
    <2>2. {j \in Entry : j < 0} = {}
      BY <2>1
    <2>3. \A key : {j \in MatchIn(store', key) : j < 0} = {}
      <3>1. store \in Stores /\ store.valid \in SUBSET Entry
        BY StoreParts DEF Shape
      <3> QED
        BY <1>2, <2>1, <3>1 DEF MatchIn
    <2> DEFINE c == store'.capture
               a == store'.admin
    <2>4. /\ a.state = "CAPTURE" /\ a.key = c.key /\ a.slot = 0 /\ ~a.primed
          /\ ~c.alloc_pending /\ ~c.allocated /\ c.length = 0
          /\ c.match = {} /\ c.free = {}
      BY <1>5, ScanStarts
    <2>5. /\ {j \in MatchIn(store', c.key) : j < a.slot} = {}
          /\ {j \in Entry : j < a.slot} \ store'.valid = {}
      BY <2>2, <2>3, <2>4
    <2> HIDE DEF c, a
    <2> QED
      BY <2>4, <2>5 DEF c, a
  <1>6. CASE store.admin.state = "IDLE" /\ ~store.capture.alloc_pending
    <2>1. /\ store'.admin.state = "IDLE" /\ ~store'.capture.alloc_pending
          /\ store'.capture.allocated = store.capture.allocated
          /\ store'.capture.rejected = store.capture.rejected
          /\ store'.capture.slot = store.capture.slot /\ store'.capture.key = store.capture.key
          /\ store'.capture.length # 0 => store'.capture.allocated
      BY <1>6, ScanRests
    <2>2. store.capture.allocated /\ ~store.capture.rejected =>
            \/ store.capture.slot \in MatchIn(store, store.capture.key)
            \/ MatchIn(store, store.capture.key) = {} /\ store.capture.slot \notin store.valid
      BY DEF ScanPlaced, Capturing, Match
    <2>3. MatchIn(store', store'.capture.key) = MatchIn(store, store.capture.key)
      BY <1>2, <2>1
    <2> QED
      BY <1>1, <2>1, <2>2, <2>3
  <1> QED
    BY <1>3, <1>4, <1>5, <1>6
\* The scan for the exporter, while the device is up.
LEMMA ExporterScan ==
  ASSUME Shape, CapturePlaced, ScanPlaced, NEW x, NEW offer, StoreCycle(x, offer), writer.phase = "up"
  PROVE  /\ store'.admin.state # "CAPTURE"
         /\ store'.admin.state = "EXPORT" /\ store'.admin.primed =>
              store'.admin.record = store'.directory[store'.admin.slot]
  <1>1. /\ store'.admin = AdminStep(store, x) /\ store \in Stores /\ store.admin \in Admins
        /\ store'.directory = store.directory
    BY ScanCycle, StillCycle, StoreParts DEF Shape
  <1>2. ~store.capture.alloc_pending /\ store.admin.state \in {"IDLE", "EXPORT"}
    <2>1. ~store.capture.alloc_pending
      BY DEF CapturePlaced
    <2>2. store.admin.state # "CAPTURE"
      BY DEF ScanPlaced
    <2> QED
      BY <1>1, <2>1, <2>2, AdminParts
  <1>3. CASE store.admin.state = "IDLE" /\ store.pending = NoRequest
    BY <1>1, <1>2, <1>3, AdminCases
  <1>4. CASE store.admin.state = "IDLE" /\ store.pending # NoRequest
    BY <1>1, <1>2, <1>4, AdminAsked
  <1>5. CASE store.admin.state # "IDLE" /\ AdminEnds(store, x)
    <2>1. store'.admin = NoAdmin
      BY <1>1, <1>5, AdminCases
    <2> QED
      BY <2>1 DEF NoAdmin
  <1>6. CASE store.admin.state # "IDLE" /\ ~AdminEnds(store, x)
    <2>1. store'.admin = Looked(store)
      BY <1>1, <1>6, AdminCases
    <2>2. /\ Looked(store).state = store.admin.state /\ Looked(store).slot = SlotLooked(store)
          /\ Looked(store).record = store.directory[SlotLooked(store)]
      BY <1>1, <1>6, LookedFields
    <2> QED
      BY <1>1, <1>2, <2>1, <2>2
  <1> QED
    BY <1>3, <1>4, <1>5, <1>6

\* The scan keeps its place with the capture.
LEMMA ScanPlacedNext ==
  ASSUME Shape, WriterPlaced, CapturePlaced, ScanPlaced, QuietUnlessUp,
         NEW x, NEW offer, StoreCycle(x, offer)
  PROVE  ScanPlaced'
  <1>1. WriterMoved \/ WriterTakes(offer)
    BY WriterCases DEF StoreCycle
  <1>2. writer.phase \in {"off", "drop", "clear", "wait", "start", "data", "commit", "abort",
                          "up", "error"} /\ store \in Stores
    BY WriterParts DEF Shape
  <1>3. CASE writer.phase \in {"clear", "drop"}
    <2>1. store'.admin = NoAdmin
      BY <1>3, ClearCycle
    <2>2. writer'.phase \in {"wait", "off"}
      BY <1>1, <1>3, MovedFields DEF WriterTakes
    <2> QED
      BY <2>1, <2>2 DEF NoAdmin, ScanPlaced, Capturing
  <1>4. CASE writer.phase \in {"off", "wait", "error"}
    <2>1. store.pending = NoRequest
      BY <1>4 DEF QuietUnlessUp
    <2>2. ~store.capture.alloc_pending
      BY <1>4 DEF CapturePlaced
    <2>3. store.admin.state = "IDLE" => store'.admin.state = "IDLE"
      BY <1>4, <2>1, <2>2, ScanCycle, IdleScan
    <2>4. writer'.phase \notin {"data", "commit"}
          /\ (writer.phase = "error" => writer'.phase \in {"error", "drop"})
      BY <1>1, <1>4, MovedFields DEF WriterTakes
    <2> QED
      BY <1>4, <2>3, <2>4 DEF ScanPlaced, Capturing
  <1>5. CASE writer.phase = "up"
    <2>1. store'.admin.state # "CAPTURE"
      BY <1>5, ExporterScan
    <2>2. writer'.phase \in {"up", "drop"}
      BY <1>1, <1>5, MovedFields DEF WriterTakes
    <2> QED
      BY <2>1, <2>2 DEF ScanPlaced, Capturing
  <1>6. CASE writer.phase = "start"
    <2>1. store.pending = NoRequest
      BY <1>6 DEF QuietUnlessUp
    <2>2. ~store.capture.alloc_pending /\ store.admin.state = "IDLE"
      BY <1>6 DEF CapturePlaced, ScanPlaced
    <2>3. store'.admin.state = "IDLE"
      BY <1>6, <2>1, <2>2, ScanCycle, IdleScan
    <2>4. writer'.phase = "data"
      BY <1>1, <1>6, MovedFields DEF WriterTakes
    <2>5. /\ store'.capture.length = 0 /\ store'.capture.allocated = FALSE
      <3>1. store'.capture = Opened(store, x) /\ x.start \in KeyNames
        BY <1>6, StillCycle DEF StoreCycle, WriterSees
      <3> QED
        BY <1>2, <3>1, OpenedFields
    <2> QED
      BY <2>3, <2>4, <2>5 DEF ScanPlaced, Capturing
  <1>7. CASE writer.phase = "data"
    <2>1. writer'.phase \in {"data", "commit", "clear", "drop", "abort"}
      BY <1>1, <1>7, MovedFields, TakesFields
    <2> DEFINE c == store'.capture
               a == store'.admin
    <2>2. /\ c.length # 0 => c.allocated
          /\ c.alloc_pending => a.state = "IDLE" /\ ~c.allocated
          /\ c.allocated => a.state = "IDLE"
          /\ a.state # "IDLE" =>
                /\ a.state = "CAPTURE" /\ a.key = c.key
                /\ c.match = {j \in MatchIn(store', c.key) : j < a.slot}
                /\ c.free = {j \in Entry : j < a.slot} \ store'.valid
                /\ IF a.primed THEN a.record = store'.directory[a.slot] ELSE a.slot = 0
          /\ c.allocated /\ ~c.rejected =>
                \/ c.slot \in MatchIn(store', c.key)
                \/ MatchIn(store', c.key) = {} /\ c.slot \notin store'.valid
      BY <1>7, DataScan
    <2> QED
      BY <2>1, <2>2 DEF ScanPlaced, Capturing, Match
  <1>8. CASE writer.phase \in {"commit", "abort"}
    <2>1. writer'.phase = IF writer.phase = "commit" THEN "wait" ELSE "error"
      BY <1>1, <1>8, MovedFields DEF WriterTakes
    <2>2. writer.phase = "commit" => store'.admin.state = "IDLE"
      <3> SUFFICES ASSUME writer.phase = "commit" PROVE store'.admin.state = "IDLE"
        OBVIOUS
      <3>1. store.pending = NoRequest
        BY DEF QuietUnlessUp
      <3>2. store.capture.length = current[2] /\ current[2] # 0
        BY ScriptParts DEF CapturePlaced, Capturing
      <3>3. store.admin.state = "IDLE" /\ ~store.capture.alloc_pending
        BY <3>2 DEF ScanPlaced, Capturing
      <3> QED
        BY <3>1, <3>3, ScanCycle, IdleScan
    <2> QED
      BY <1>8, <2>1, <2>2 DEF ScanPlaced, Capturing
  <1> QED
    BY <1>2, <1>3, <1>4, <1>5, <1>6, <1>7, <1>8
-----------------------------------------------------------------------------
(***************************************************************************)
(* The directory and the memory.                                           *)
(***************************************************************************)

\* What committed captures have of the memory is a part of what is allocated.
LEMMA LimitIn ==
  ASSUME Shape, CapturePlaced
  PROVE  Limit \in Nat /\ Limit <= store.allocator /\ store.allocator \in Nat
         /\ store.allocator <= StoreSize
  <1>1. /\ store.allocator \in 0..StoreSize /\ store.allocator \in Nat
        /\ store.capture.base \in Nat /\ store.capture.length \in Nat
    BY StoreParts, CaptureParts DEF Shape
  <1> QED
    BY <1>1, Sizes DEF Limit, CapturePlaced

\* A cycle that does not clear the store writes no byte a committed capture has.
LEMMA HeldCycle ==
  ASSUME Shape, CapturePlaced, NEW x, NEW offer, StoreCycle(x, offer),
         writer.phase \notin {"clear", "drop"}
  PROVE  /\ Limit \in Nat /\ Limit' \in Nat /\ Limit <= Limit'
         /\ \A a \in Nat : a < Limit => store'.memory[a] = store.memory[a]
  <1>1. Limit \in Nat /\ Limit <= store.allocator /\ store.allocator \in Nat
        /\ store.capture.base \in Nat /\ store.capture.length \in Nat
    BY LimitIn, StoreParts, CaptureParts DEF Shape
  <1>2. CASE writer.phase \in {"off", "wait", "up", "error"}
    <2>1. /\ store'.memory = store.memory /\ store'.allocator = store.allocator
          /\ store'.capture = store.capture
      BY <1>2, StillCycle
    <2>2. Limit' = Limit
      BY <2>1 DEF Limit
    <2> QED
      BY <1>1, <2>1, <2>2
  <1>3. CASE writer.phase = "start"
    <2>1. /\ store'.memory = store.memory /\ store'.capture = Opened(store, x)
          /\ ~store.capture.active
      BY <1>3, StillCycle
    <2>2. store'.capture.base = store.allocator /\ store'.capture.active
      <3>1. x.start \in KeyNames /\ store \in Stores
        BY DEF StoreCycle, WriterSees, Shape
      <3> QED
        BY <2>1, <3>1, OpenedFields
    <2>3. Limit = store.allocator /\ Limit' = store.allocator
      BY <2>1, <2>2 DEF Limit
    <2> QED
      BY <1>1, <2>1, <2>3
  <1>4. CASE writer.phase = "data"
    <2>1. /\ store'.capture.active /\ store.capture.active
          /\ store'.capture.base = store.capture.base
      BY <1>4, DataFields
    <2>2. \/ store'.memory = store.memory
          \/ store'.memory = [store.memory EXCEPT ![store.allocator] =
                                <<current[1], writer.session, writer.bytes>>]
      BY <1>4, DataCycle
    <2>3. store.memory \in [0..(StoreSize - 1) -> Bytes]
      BY StoreParts DEF Shape
    <2>4. Limit' = Limit
      BY <2>1 DEF Limit
    <2>5. \A a \in Nat : a < Limit => a # store.allocator /\ a \in 0..(StoreSize - 1)
      BY <1>1, LimitIn, Sizes
    <2>6. \A a \in Nat : a < Limit => store'.memory[a] = store.memory[a]
      BY <2>2, <2>3, <2>5
    <2> QED
      BY <1>1, <2>4, <2>6
  <1>5. CASE writer.phase \in {"commit", "abort"}
    <2>1. /\ store'.memory = store.memory /\ ~store'.capture.active
          /\ \/ store'.allocator = store.allocator
             \/ store'.allocator = IF store.capture.active THEN store.capture.base
                                   ELSE store.allocator
      BY <1>5, EndCycle
    <2>2. Limit' = store'.allocator
      BY <2>1 DEF Limit
    <2>3. Limit = IF store.capture.active THEN store.capture.base ELSE store.allocator
      BY DEF Limit
    <2> QED
      BY <1>1, <2>1, <2>2, <2>3
  <1> QED
    BY <1>2, <1>3, <1>4, <1>5, WriterParts

\* A whole capture stays one.
LEMMA HeldStays ==
  ASSUME Shape, CapturePlaced, NEW x, NEW offer, StoreCycle(x, offer),
         writer.phase \notin {"clear", "drop"}, writer'.session = writer.session,
         NEW key, NEW start \in Nat, NEW length \in Nat, HeldWhole(key, start, length)
  PROVE  HeldIn(store', Limit', writer'.session, key, start, length)
  <1>1. /\ Limit \in Nat /\ Limit' \in Nat /\ Limit <= Limit'
        /\ \A a \in Nat : a < Limit => store'.memory[a] = store.memory[a]
    BY HeldCycle
  <1>2. /\ start + length <= Limit
        /\ \A i \in 0..(length - 1) : store.memory[start + i] = <<key, writer.session, i>>
    BY DEF HeldWhole, HeldIn
  <1>3. start + length <= Limit'
    BY <1>1, <1>2
  <1>4. \A i \in 0..(length - 1) : start + i \in Nat /\ start + i < Limit
    BY <1>1, <1>2
  <1>5. \A i \in 0..(length - 1) : store'.memory[start + i] = store.memory[start + i]
    BY <1>1, <1>4, Zenon
  <1> QED
    BY <1>2, <1>3, <1>5 DEF HeldIn
\* A capture that is committed becomes an entry of the directory: its bytes are
\* whole, the device has it, and no other entry has its key.
LEMMA Committed ==
  ASSUME Shape, WriterPlaced, CapturePlaced, ScanPlaced, DirectoryWhole, CaptureWhole,
         NEW x, NEW offer, StoreCycle(x, offer),
         writer.phase = "commit", capture_commit_ok(store, x)
  PROVE  DirectoryWhole'
  <1> DEFINE slot == store.capture.slot
             record == [key |-> store.capture.key, start |-> store.capture.base,
                        length |-> store.capture.length]
  <1>1. /\ store'.memory = store.memory /\ ~store'.capture.active
        /\ store'.directory = [store.directory EXCEPT ![slot] = record]
        /\ store'.valid = store.valid \cup {slot} /\ store'.allocator = store.allocator
        /\ store.capture.active /\ store.capture.allocated /\ ~store.capture.rejected
    BY EndCycle
  <1>2. /\ store \in Stores /\ slot \in Entry /\ store.directory \in [Entry -> Records]
        /\ store.valid \in SUBSET Entry
        /\ store.capture.base \in Nat /\ store.capture.length \in Nat
    BY StoreParts, CaptureParts DEF Shape
  <1>3. writer'.session = writer.session /\ writer'.phase = "wait"
    <2>1. WriterMoved
      BY WriterCases DEF StoreCycle, WriterTakes
    <2> QED
      BY <2>1, MovedFields
  <1>4. script' = script
    BY <1>3, CurrentStays
  <1>5. /\ \A i \in store.valid :
              LET d == store.directory[i]
              IN  /\ HeldWhole(d.key, d.start, d.length)
                  /\ \E k \in DOMAIN script : script[k] = <<d.key, d.length>>
        /\ \A i, j \in store.valid :
              store.directory[i].key = store.directory[j].key => i = j
    BY DEF DirectoryWhole
  <1>6. \A i \in store.valid : i # slot => store'.directory[i] = store.directory[i]
    BY <1>1, <1>2
  <1>7. store'.directory[slot] = record
    BY <1>1, <1>2
  <1>8. \/ slot \in store.valid /\ store.directory[slot].key = store.capture.key
        \/ slot \notin store.valid
           /\ \A i \in store.valid : store.directory[i].key # store.capture.key
    BY <1>1 DEF ScanPlaced, Capturing, Match, MatchIn
  <1>9. HeldIn(store', Limit', writer'.session, record.key, record.start, record.length)
    <2>1. Limit' = store.capture.base + store.capture.length
      BY <1>1 DEF Limit, CapturePlaced
    <2>2. \A i \in 0..(store.capture.length - 1) :
             store.memory[store.capture.base + i] = <<store.capture.key, writer.session, i>>
      BY DEF CaptureWhole, Capturing
    <2> QED
      BY <1>1, <1>2, <1>3, <2>1, <2>2 DEF HeldIn
  <1>10. \E k \in DOMAIN script : script[k] = <<record.key, record.length>>
    <2>1. /\ current = <<current[1], current[2]>> /\ writer.done + 1 \in DOMAIN script
      BY ScriptParts
    <2>2. store.capture.key = current[1] /\ store.capture.length = current[2]
      BY DEF CapturePlaced, Capturing
    <2>3. script[writer.done + 1] = <<store.capture.key, store.capture.length>>
      BY <2>1, <2>2 DEF current
    <2> QED
      BY <2>1, <2>3
  <1> HIDE DEF record, slot
  <1>11. ASSUME NEW i \in store'.valid
         PROVE  LET d == store'.directory[i]
                IN  /\ HeldIn(store', Limit', writer'.session, d.key, d.start, d.length)
                    /\ \E k \in DOMAIN script' : script'[k] = <<d.key, d.length>>
    <2>1. CASE i = slot
      BY <1>4, <1>7, <1>9, <1>10, <2>1
    <2>2. CASE i # slot
      <3> DEFINE d == store.directory[i]
      <3>1. i \in store.valid /\ store'.directory[i] = d
        BY <1>1, <1>6, <2>2
      <3>2. d.start \in Nat /\ d.length \in Nat
        BY <1>2, <3>1 DEF Records
      <3>3. HeldWhole(d.key, d.start, d.length)
            /\ \E k \in DOMAIN script : script[k] = <<d.key, d.length>>
        BY <1>5, <3>1
      <3> HIDE DEF d
      <3>4. HeldIn(store', Limit', writer'.session, d.key, d.start, d.length)
        BY <1>3, <3>2, <3>3, HeldStays
      <3> QED
        BY <1>4, <3>1, <3>3, <3>4
    <2> QED
      BY <2>1, <2>2
  <1>12. \A i, j \in store'.valid :
            store'.directory[i].key = store'.directory[j].key => i = j
    <2>1. store'.directory[slot].key = store.capture.key
      BY <1>7 DEF record
    <2>2. \A i \in store.valid : i # slot => store.directory[i].key # store.capture.key
      BY <1>5, <1>8 DEF slot
    <2> QED
      BY <1>1, <1>5, <1>6, <2>1, <2>2
  <1> QED
    BY <1>11, <1>12 DEF DirectoryWhole, HeldWhole
\* A cycle without a clear or a commit leaves the entries as they are.
LEMMA UncommittedCycle ==
  ASSUME Shape, CapturePlaced, NEW x, NEW offer, StoreCycle(x, offer),
         writer.phase \notin {"clear", "drop"}, ~capture_commit_ok(store, x)
  PROVE  store'.directory = store.directory /\ store'.valid = store.valid
  BY ScanCycle DEF DirectoryStep

\* The device that is captured changes where its session begins.
LEMMA SessionStays ==
  ASSUME Shape, NEW offer, WriterNext(offer), writer'.phase # "clear"
  PROVE  writer'.session = writer.session
  BY WriterCases, MovedFields, TakesFields

\* The directory holds whole captures of the device, one of each key.
LEMMA DirectoryWholeNext ==
  ASSUME Shape, WriterPlaced, CapturePlaced, ScanPlaced, DirectoryWhole, CaptureWhole,
         NEW x, NEW offer, StoreCycle(x, offer)
  PROVE  DirectoryWhole'
  <1>1. CASE writer.phase \in {"clear", "drop"}
    <2>1. store'.valid = {}
      BY <1>1, ClearCycle
    <2> QED
      BY <2>1 DEF DirectoryWhole
  <1>2. CASE writer.phase \notin {"clear", "drop"} /\ capture_commit_ok(store, x)
    BY <1>2, ScanCycle, Committed
  <1>3. CASE writer.phase \notin {"clear", "drop"} /\ ~capture_commit_ok(store, x)
    <2> SUFFICES ASSUME writer'.phase # "clear" PROVE DirectoryWhole'
      BY DEF DirectoryWhole
    <2>1. store'.directory = store.directory /\ store'.valid = store.valid
      BY <1>3, UncommittedCycle
    <2>2. writer'.session = writer.session /\ script' = script
      BY SessionStays, CurrentStays DEF StoreCycle
    <2>3. /\ \A i \in store.valid :
                LET d == store.directory[i]
                IN  /\ HeldWhole(d.key, d.start, d.length)
                    /\ \E k \in DOMAIN script : script[k] = <<d.key, d.length>>
          /\ \A i, j \in store.valid :
                store.directory[i].key = store.directory[j].key => i = j
      BY <1>3 DEF DirectoryWhole
    <2>4. store.directory \in [Entry -> Records] /\ store.valid \in SUBSET Entry
      BY StoreParts DEF Shape
    <2>5. ASSUME NEW i \in store.valid
          PROVE  LET d == store.directory[i]
                 IN  HeldIn(store', Limit', writer'.session, d.key, d.start, d.length)
      <3> DEFINE d == store.directory[i]
      <3>1. d.start \in Nat /\ d.length \in Nat
        BY <2>4 DEF Records
      <3>2. HeldWhole(d.key, d.start, d.length)
        BY <2>3
      <3> HIDE DEF d
      <3>3. HeldIn(store', Limit', writer'.session, d.key, d.start, d.length)
        BY <1>3, <2>2, <3>1, <3>2, HeldStays
      <3> QED
        BY <3>3 DEF d
    <2> QED
      BY <2>1, <2>2, <2>3, <2>5 DEF DirectoryWhole, HeldWhole
  <1> QED
    BY <1>1, <1>2, <1>3

\* The open capture has the bytes the writer offered, in their order.
LEMMA CaptureWholeNext ==
  ASSUME Shape, WriterPlaced, CapturePlaced, CaptureWhole, NEW x, NEW offer, StoreCycle(x, offer)
  PROVE  CaptureWhole'
  <1> SUFFICES ASSUME Capturing' PROVE CaptureWhole'
    BY DEF CaptureWhole
  <1>1. WriterMoved \/ WriterTakes(offer)
    BY WriterCases DEF StoreCycle
  <1>2. CASE WriterMoved
    <2>1. writer.phase = "start"
      BY <1>2, MovedFields DEF Capturing
    <2>2. store'.capture.length = 0
      <3>1. store'.capture = Opened(store, x) /\ x.start \in KeyNames /\ store \in Stores
        BY <2>1, StillCycle DEF StoreCycle, WriterSees, Shape
      <3> QED
        BY <3>1, OpenedFields
    <2> QED
      BY <2>2 DEF CaptureWhole
  <1>3. CASE WriterTakes(offer)
    <2>1. writer.phase = "data"
      BY <1>3 DEF WriterTakes
    <2>2. writer'.session = writer.session
      BY <1>3, TakesFields
    <2>3. /\ store'.capture.key = store.capture.key /\ store'.capture.base = store.capture.base
          /\ store'.capture.length = IF Counts(offer) THEN store.capture.length + 1
                                     ELSE store.capture.length
      BY <2>1, DataFields
    <2>4. /\ store.capture.key = current[1] /\ store.capture.length = writer.bytes
          /\ store.allocator = store.capture.base + store.capture.length
          /\ \A i \in 0..(store.capture.length - 1) :
                store.memory[store.capture.base + i] = <<store.capture.key, writer.session, i>>
      BY <2>1 DEF CapturePlaced, CaptureWhole, Capturing
    <2>5. /\ store.memory \in [0..(StoreSize - 1) -> Bytes] /\ store.allocator \in Nat
          /\ store.capture.base \in Nat /\ store.capture.length \in Nat
      BY StoreParts, CaptureParts DEF Shape
    <2>6. CASE Counts(offer)
      <3>1. /\ store'.memory = [store.memory EXCEPT ![store.allocator] =
                                  <<current[1], writer.session, writer.bytes>>]
            /\ store.allocator < StoreSize
        BY <2>1, <2>6, DataCycle
      <3>2. store.allocator \in 0..(StoreSize - 1)
        BY <2>5, <3>1, Sizes
      <3>3. store'.memory[store.allocator] = <<current[1], writer.session, writer.bytes>>
        BY <2>5, <3>1, <3>2
      <3>4. ASSUME NEW i \in 0..store.capture.length
            PROVE  store'.memory[store.capture.base + i] = <<store.capture.key, writer.session, i>>
        <4>1. CASE i = store.capture.length
          BY <2>4, <3>3, <4>1
        <4>2. CASE i # store.capture.length
          <5>1. i \in 0..(store.capture.length - 1) /\ store.capture.base + i # store.allocator
                /\ store.capture.base + i \in 0..(StoreSize - 1)
            BY <2>4, <2>5, <3>2, <4>2, Sizes
          <5> QED
            BY <2>4, <2>5, <3>1, <5>1
        <4> QED
          BY <4>1, <4>2
      <3>5. store'.capture.length - 1 = store.capture.length
        BY <2>3, <2>5, <2>6
      <3> QED
        BY <2>2, <2>3, <3>4, <3>5 DEF CaptureWhole
    <2>7. CASE ~Counts(offer)
      <3>1. store'.memory = store.memory
        BY <2>1, <2>7, DataCycle
      <3> QED
        BY <2>2, <2>3, <2>4, <2>7, <3>1 DEF CaptureWhole
    <2> QED
      BY <2>6, <2>7
  <1> QED
    BY <1>1, <1>2, <1>3
-----------------------------------------------------------------------------
(***************************************************************************)
(* What the exporter and the clone have been told.                         *)
(***************************************************************************)

\* A scan that ends in this cycle tells what the directory has.
LEMMA AnswersTrueUp ==
  ASSUME Shape, CapturePlaced, ScanPlaced, AnswersTrue, NEW x, NEW offer, StoreCycle(x, offer),
         writer.phase = "up"
  PROVE  AnswersTrue'
  <1>1. /\ store'.directory = store.directory /\ store'.valid = store.valid
        /\ store'.export = ExportStep(store, x) /\ ~capture_commit_ok(store, x)
    BY StillCycle, ScanCycle
  <1>2. /\ store \in Stores /\ store.export \in Exports
        /\ store.directory \in [Entry -> Records] /\ store.admin.slot \in Entry
    BY StoreParts, AdminParts DEF Shape
  <1> DEFINE a == store'.export
  <1>3. ASSUME a.valid PROVE EntryIn(store, a.key, a.start, a.length)
    <2>1. CASE store.admin.state = "EXPORT" /\ AdminEnds(store, x)
      <3> DEFINE d == store.admin.record
                 slot == store.admin.slot
                 hit == slot \in store.valid
      <3>1. a = [valid |-> hit, key |-> d.key, start |-> d.start,
                 length |-> IF hit THEN d.length ELSE 0, response |-> TRUE]
        BY <1>1, <2>1 DEF ExportStep
      <3>2. hit
        <4> HIDE DEF a, d, hit
        <4> QED
          BY <1>3, <3>1
      <3>4. store.admin.primed
        BY <2>1 DEF AdminEnds
      <3>5. d = store.directory[slot]
        BY <2>1, <3>4 DEF AnswersTrue
      <3>6. d \in Records
        BY <1>2, <3>5
      <3>7. d = [key |-> d.key, start |-> d.start, length |-> d.length]
        BY <3>6 DEF Records
      <3>8. a.key = d.key /\ a.start = d.start /\ a.length = d.length
        BY <3>1, <3>2
      <3> QED
        BY <3>2, <3>5, <3>7, <3>8 DEF EntryIn
    <2>2. CASE ~(store.admin.state = "EXPORT" /\ AdminEnds(store, x))
      <3> DEFINE old == store.export
      <3>1. a = [old EXCEPT !.response = FALSE, !.valid = @ /\ ~capture_commit_ok(store, x)]
        BY <1>1, <2>2 DEF ExportStep
      <3>3. a.key = old.key /\ a.start = old.start /\ a.length = old.length
            /\ (a.valid => old.valid)
        BY <1>2, <3>1 DEF Exports
      <3>4. EntryIn(store, old.key, old.start, old.length)
        BY <1>3, <3>3 DEF AnswersTrue, InDirectory
      <3> QED
        BY <3>3, <3>4
    <2> QED
      BY <2>1, <2>2
  <1>4. \A key, start, length : EntryIn(store', key, start, length) <=> EntryIn(store, key, start, length)
    BY <1>1, SameEntries, Zenon
  <1>5. store'.admin.state = "EXPORT" /\ store'.admin.primed =>
          store'.admin.record = store'.directory[store'.admin.slot]
    BY ExporterScan
  <1> QED
    BY <1>3, <1>4, <1>5 DEF AnswersTrue, InDirectory

\* The slot the clone's scan looks at is the key's, or is passed by.
LEMMA ServeTrueUp ==
  ASSUME Shape, CapturePlaced, ServeTrue, NEW x, NEW offer, StoreCycle(x, offer),
         writer.phase = "up"
  PROVE  ServeTrue'
  <1> DEFINE v == store.serve
             n == store'.serve
             d == store.directory[v.slot]
  <1>1. /\ store'.directory = store.directory /\ store'.valid = store.valid
        /\ n = ServeStep(store, x) /\ ~capture_commit_ok(store, x)
    BY StillCycle, ScanCycle
  <1>2. /\ store \in Stores /\ v \in Serves /\ v.slot \in Entry /\ d \in Records
        /\ store.valid \in SUBSET Entry
    BY StoreParts, ServeParts DEF Shape
  <1>3. /\ \A key : MatchIn(store', key) = MatchIn(store, key)
        /\ \A key, start, length : EntryIn(store', key, start, length) <=> EntryIn(store, key, start, length)
    BY <1>1, SameEntries, Zenon
  <1>4. /\ v.busy => /\ v.key # NoKey /\ ~v.selected /\ ~v.response
                     /\ \A j \in MatchIn(store, v.key) : j >= v.slot
        /\ v.selected = v.found
        /\ v.selected => EntryIn(store, v.key, v.start, v.length)
        /\ v.response /\ ~v.selected => MatchIn(store, v.key) = {}
    BY DEF ServeTrue, Match, InDirectory
  <1>5. /\ n.busy => /\ n.key # NoKey /\ ~n.selected /\ ~n.response
                     /\ \A j \in MatchIn(store, n.key) : j >= n.slot
        /\ n.selected = n.found
        /\ n.selected => EntryIn(store, n.key, n.start, n.length)
        /\ n.response /\ ~n.selected => MatchIn(store, n.key) = {}
    <2>1. CASE ServeDrops(store, x)
      <3>1. n = Unselected(v)
        BY <1>1, <1>2, <2>1, ServeCases
      <3> HIDE DEF n, v
      <3> QED
        BY <1>2, <3>1, ServeFields
    <2>2. CASE ~ServeDrops(store, x) /\ Asking(store, x)
      <3>1. n = Sought(v, x.serve_request)
        BY <1>1, <1>2, <2>2, ServeCases
      <3>2. x.serve_request \in KeyNames /\ x.serve_request # NoKey
        BY <2>2 DEF StoreCycle, Asking
      <3>3. \A j \in Entry : j >= 0
        BY DEF Entry
      <3>4. \A key : MatchIn(store, key) \subseteq Entry
        BY <1>2 DEF MatchIn
      <3> HIDE DEF n, v
      <3>5. n.busy = TRUE /\ n.selected = FALSE /\ n.found = FALSE /\ n.response = FALSE
            /\ n.key = x.serve_request /\ n.slot = 0
        BY <1>2, <3>1, <3>2, ServeFields
      <3> QED
        BY <3>2, <3>3, <3>4, <3>5
    <2>3. CASE ~ServeDrops(store, x) /\ ~Asking(store, x) /\ ~v.busy
      <3>1. n = Held(v)
        BY <1>1, <1>2, <2>3, ServeCases
      <3> HIDE DEF n
      <3>2. n.busy = v.busy /\ n.selected = v.selected /\ n.found = v.found
            /\ n.response = FALSE /\ n.key = v.key /\ n.start = v.start /\ n.length = v.length
        BY <1>2, <3>1, ServeMoves
      <3> QED
        BY <1>4, <2>3, <3>2
    <2>4. CASE ~ServeDrops(store, x) /\ ~Asking(store, x) /\ v.busy /\ ~v.primed
      <3>1. n = Primed(v)
        BY <1>1, <1>2, <2>4, ServeCases
      <3> HIDE DEF n
      <3>2. n.busy = v.busy /\ n.selected = v.selected /\ n.found = v.found
            /\ n.response = FALSE /\ n.key = v.key /\ n.slot = v.slot
        BY <1>2, <3>1, ServeMoves
      <3> QED
        BY <1>4, <2>4, <3>2
    <2>5. CASE ~ServeDrops(store, x) /\ ~Asking(store, x) /\ v.busy /\ v.primed
               /\ serve_matches(store)
      <3>1. n = Selected(v, d)
        BY <1>1, <1>2, <2>5, ServeCases
      <3>2. n.busy = FALSE /\ n.selected = TRUE /\ n.found = TRUE
            /\ n.response = TRUE /\ n.key = v.key /\ n.start = d.start /\ n.length = d.length
        <4> HIDE DEF n, v, d
        <4> QED
          BY <1>2, <3>1, ServeFields
      <3>3. v.slot \in store.valid /\ d.key = v.key
        BY <2>5 DEF serve_matches
      <3>4. d = [key |-> d.key, start |-> d.start, length |-> d.length]
        BY <1>2 DEF Records
      <3>5. EntryIn(store, n.key, n.start, n.length)
        BY <3>2, <3>3, <3>4 DEF EntryIn
      <3> HIDE DEF n, v, d
      <3> QED
        BY <3>2, <3>5
    <2>6. CASE ~ServeDrops(store, x) /\ ~Asking(store, x) /\ v.busy /\ v.primed
               /\ ~serve_matches(store) /\ ServeScanned(v)
      <3>1. n = Missed(v)
        BY <1>1, <1>2, <2>6, ServeCases
      <3>2. n.busy = FALSE /\ n.selected = FALSE /\ n.found = FALSE
            /\ n.response = TRUE /\ n.key = v.key
        <4> HIDE DEF n, v, d
        <4> QED
          BY <1>2, <3>1, ServeFields
      <3>3. v.slot \notin MatchIn(store, v.key) /\ v.slot = Slots - 1
        BY <2>6 DEF serve_matches, MatchIn, ServeScanned
      <3>4. MatchIn(store, v.key) \subseteq Entry
        BY <1>2 DEF MatchIn
      <3>5. \A j \in Entry : j >= Slots - 1 => j = Slots - 1
        BY Sizes DEF Entry
      <3>6. MatchIn(store, v.key) = {}
        BY <1>4, <2>6, <3>3, <3>4, <3>5
      <3> HIDE DEF n, v, d
      <3> QED
        BY <3>2, <3>6
    <2>7. CASE ~ServeDrops(store, x) /\ ~Asking(store, x) /\ v.busy /\ v.primed
               /\ ~serve_matches(store) /\ ~ServeScanned(v)
      <3>1. n = Advanced(v)
        BY <1>1, <1>2, <2>7, ServeCases
      <3>2. n.busy = v.busy /\ n.selected = v.selected /\ n.found = v.found
            /\ n.response = FALSE /\ n.key = v.key /\ n.slot = v.slot + 1
        <4> HIDE DEF n, v, d
        <4> QED
          BY <1>2, <2>7, <3>1, ServeMoves
      <3>3. v.slot \notin MatchIn(store, v.key)
        BY <2>7 DEF serve_matches, MatchIn
      <3>4. MatchIn(store, v.key) \subseteq Entry
        BY <1>2 DEF MatchIn
      <3>5. ASSUME NEW j \in Entry PROVE j >= v.slot /\ j # v.slot => j >= v.slot + 1
        <4>1. j \in Nat /\ v.slot \in Nat
          BY <1>2, Sizes
        <4> HIDE DEF v
        <4> QED
          BY <4>1
      <3>6. \A j \in MatchIn(store, v.key) : j >= v.slot + 1
        BY <1>4, <2>7, <3>3, <3>4, <3>5
      <3> HIDE DEF n, v, d
      <3> QED
        BY <1>4, <2>7, <3>2, <3>6
    <2> QED
      BY <2>1, <2>2, <2>3, <2>4, <2>5, <2>6, <2>7
  <1> HIDE DEF n
  <1> QED
    BY <1>3, <1>5 DEF ServeTrue, Match, InDirectory, n
-----------------------------------------------------------------------------
(***************************************************************************)
(* A cycle of the whole: the writer and the store, the PC, the streamer,   *)
(* the exporter.                                                           *)
(***************************************************************************)
Moved(x, offer, token, received, start, ready) ==
    /\ StoreCycle(x, offer) /\ ServeSees(x, Inputs(received, start, ready))
    /\ token \in BOOLEAN /\ start \in BOOLEAN /\ ready \in BOOLEAN
    /\ received \in {"none", "descriptor", "other"}
    /\ received # "none" => connected /\ pc.phase = "setup"
    /\ start => connected /\ pc.phase = "ready"
    /\ ready => streamer.active
    /\ token => SetupToken /\ received = "none" /\ ~start /\ streamer' = StreamerOff
    /\ ~token => /\ connected => PcCycle(received, start, ready)
                 /\ ~connected => pc' = NoTransfer
                 /\ streamer' = StreamerStep(streamer, Inputs(received, start, ready), store, x)
    /\ setups' \in Nat
    /\ \E other, sent : ExportCycle(other, sent, x)

\* Every step is a cycle of the parts on inputs of their types.
LEMMA NextMoves ==
  ASSUME Shape, WriterPlaced, QuietUnlessUp, Next
  PROVE  \E x, offer, token, received, start, ready : Moved(x, offer, token, received, start, ready)
  <1>1. PICK offer \in {FALSE, Offers}, ready \in {FALSE, streamer.active} :
           \/ TokenCycle(offer, ready)
           \/ \E received \in Received, start \in Starts :
                 PlainCycle(offer, received, start, ready)
    BY DEF Next
  <1>2. setups \in Nat /\ setups + 1 \in Nat
    BY DEF Shape
  <1>3. ready \in BOOLEAN /\ (ready => streamer.active)
    BY DEF Shape, Streamers
  <1>4. CASE TokenCycle(offer, ready)
    <2> DEFINE i == Inputs("none", FALSE, ready)
               x == StoreInputs(offer, i)
    <2>1. WriterSees(x, offer) /\ ServeSees(x, i)
      BY InputsSeen
    <2>2. SetupToken /\ setups' = setups + 1 /\ Cycle(offer, TRUE, i)
      BY <1>4 DEF TokenCycle, SetupToken
    <2>3. /\ store' = StoreStep(store, x) /\ streamer' = StreamerOff
          /\ WriterNext(offer) /\ \E other, sent : ExportCycle(other, sent, x)
      BY <2>2 DEF Cycle
    <2> HIDE DEF x
    <2>4. StoreCycle(x, offer)
      BY <2>1, <2>3 DEF StoreCycle, ServeSees
    <2>5. Moved(x, offer, TRUE, "none", FALSE, ready)
      BY <1>2, <1>3, <2>1, <2>2, <2>3, <2>4 DEF Moved
    <2> QED
      BY <2>5
  <1>5. CASE \E received \in Received, start \in Starts :
                PlainCycle(offer, received, start, ready)
    <2>1. PICK received \in Received, start \in Starts :
                PlainCycle(offer, received, start, ready)
      BY <1>5
    <2> DEFINE i == Inputs(received, start, ready)
               x == StoreInputs(offer, i)
    <2>2. WriterSees(x, offer) /\ ServeSees(x, i)
      BY InputsSeen
    <2>3. /\ IF connected THEN PcCycle(received, start, ready) /\ UNCHANGED setups
             ELSE PcDisconnected
          /\ Cycle(offer, FALSE, i)
      BY <2>1 DEF PlainCycle
    <2>4. /\ store' = StoreStep(store, x) /\ streamer' = StreamerStep(streamer, i, store, x)
          /\ WriterNext(offer) /\ \E other, sent : ExportCycle(other, sent, x)
      BY <2>3 DEF Cycle
    <2>5. /\ connected => PcCycle(received, start, ready)
          /\ ~connected => pc' = NoTransfer
          /\ setups' = setups
      BY <2>3 DEF PcDisconnected
    <2>6. /\ received \in {"none", "descriptor", "other"}
          /\ received # "none" => connected /\ pc.phase = "setup"
      BY DEF Received
    <2>7. start \in BOOLEAN /\ (start => connected /\ pc.phase = "ready")
      BY DEF Starts, connected
    <2> HIDE DEF x
    <2>8. StoreCycle(x, offer)
      BY <2>2, <2>4 DEF StoreCycle, ServeSees
    <2>9. Moved(x, offer, FALSE, received, start, ready)
      BY <1>2, <1>3, <2>2, <2>4, <2>5, <2>6, <2>7, <2>8 DEF Moved
    <2> QED
      BY <2>9
  <1> QED
    BY <1>1, <1>4, <1>5

\* A device that is not up asks the store for nothing.
LEMMA QuietMoves ==
  ASSUME NothingQueued, NEW x, NEW offer, NEW token, NEW received, NEW start, NEW ready,
         Moved(x, offer, token, received, start, ready), writer.phase # "up"
  PROVE  /\ x.serve_request = NoKey /\ ~x.serve_cancel
         /\ pc' = NoTransfer /\ ~token /\ received = "none" /\ ~start
  <1> DEFINE i == Inputs(received, start, ready)
  <1>1. ~connected
    BY DEF connected
  <1>2. /\ pc' = NoTransfer /\ received = "none" /\ ~start /\ ~token /\ ServeSees(x, i)
    BY <1>1 DEF Moved, SetupToken
  <1>3. i.prepare = FALSE /\ i.cancel = FALSE /\ ~i.start
    BY <1>2 DEF Inputs
  <1> HIDE DEF i
  <1> QED
    BY <1>2, <1>3 DEF ServeSees, serve_request, serve_cancel, need_prepare, NothingQueued

\* A step of the exporter keeps its slot in range, and starts nothing by itself.
LEMMA SlotKept ==
  ASSUME NEW e, NEW p, NEW b, NEW j, NEW s, NEW x,
         {"state", "slot"} \subseteq DOMAIN e, e.slot \in Entry
  PROVE  LET n == ExporterStep(e, p, b, j, s, x)
         IN  /\ {"state", "slot"} \subseteq DOMAIN n /\ n.slot \in Entry
             /\ x.clear => n.state = "IDLE"
             /\ e.state = "IDLE" /\ ~export_start(e, p, j) => n.state = "IDLE"
  <1> DEFINE read == [e EXCEPT !.done = FALSE, !.data = ExportRead(e, s)]
             r == PayloadStep(read, p, b, j)
             n == SlotStep(r, p, b, j, s, x)
  <1>1. /\ {"state", "slot"} \subseteq DOMAIN read /\ read.slot = e.slot
        /\ read.state = e.state
    OBVIOUS
  <1> HIDE DEF read
  <1>2. {"state", "slot"} \subseteq DOMAIN r /\ r.slot = e.slot /\ r.state = e.state
    BY <1>1 DEF PayloadStep
  <1> HIDE DEF r
  <1>3. {"state", "slot"} \subseteq DOMAIN NextSlot(r) /\ NextSlot(r).slot \in Entry
    BY <1>2, Sizes DEF NextSlot, Entry
  <1>4. {"state", "slot"} \subseteq DOMAIN n /\ n.slot \in Entry
    BY <1>2, <1>3, Sizes DEF SlotStep
  <1>5. e.state = "IDLE" /\ ~export_start(e, p, j) => n.state = "IDLE"
    BY <1>2 DEF SlotStep, export_start
  <1>6. ExporterStep(e, p, b, j, s, x) = IF x.clear THEN ExporterOff ELSE n
    BY DEF ExporterStep, r, read
  <1> HIDE DEF n
  <1>7. {"state", "slot"} \subseteq DOMAIN ExporterOff /\ ExporterOff.slot \in Entry
        /\ ExporterOff.state = "IDLE"
    BY Sizes DEF ExporterOff
  <1> QED
    BY <1>4, <1>5, <1>6, <1>7

\* The exporter works while the device is up, and is reset with the store.
LEMMA ExporterNext ==
  ASSUME Shape, QuietUnlessUp,
         NEW x, NEW offer, NEW token, NEW received, NEW start, NEW ready,
         Moved(x, offer, token, received, start, ready)
  PROVE  /\ {"state", "slot"} \subseteq DOMAIN exporter' /\ exporter'.slot \in Entry
         /\ writer.phase # "up" => exporter'.state = "IDLE"
  <1>1. PICK other, sent : ExportCycle(other, sent, x)
    BY DEF Moved
  <1> DEFINE j == Wires(other, sent)
  <1>2. exporter' = ExporterStep(exporter, plane, builder, j, store, x)
    BY <1>1 DEF ExportCycle
  <1>3. writer.phase \in {"clear", "drop"} => x.clear
    BY DEF Moved, StoreCycle, WriterSees
  <1>4. writer.phase # "up" => ~j.session
    BY DEF Wires, connected
  <1>5. writer.phase # "up" => ~export_start(exporter, plane, j)
    BY <1>4 DEF export_start
  <1>6. writer.phase \notin {"up", "drop"} => exporter.state = "IDLE"
    BY DEF QuietUnlessUp
  <1> HIDE DEF j
  <1> QED
    BY <1>2, <1>3, <1>5, <1>6, SlotKept DEF Shape

\* A device that is not up is not read.
LEMMA QuietUnlessUpNext ==
  ASSUME Shape, CapturePlaced, QuietUnlessUp, ServeTrue, NothingQueued,
         NEW x, NEW offer, NEW token, NEW received, NEW start, NEW ready,
         Moved(x, offer, token, received, start, ready)
  PROVE  QuietUnlessUp'
  <1>1. StoreCycle(x, offer) /\ (WriterMoved \/ WriterTakes(offer))
    BY WriterCases DEF Moved, StoreCycle
  <1>2. CASE writer.phase = "up"
    <2>1. writer'.phase \in {"up", "drop"}
      BY <1>1, <1>2, MovedFields DEF WriterTakes
    <2> QED
      BY <2>1 DEF QuietUnlessUp
  <1>3. CASE writer.phase # "up"
    <2>1. x.serve_request = NoKey /\ ~x.serve_cancel /\ pc' = NoTransfer
      BY <1>3, QuietMoves
    <2>2. /\ store'.pending = NoRequest /\ ~store'.export.valid
          /\ ~store'.serve.busy /\ ~store'.serve.selected /\ ~store'.serve.response
          /\ store'.admin.state \in {"IDLE", "CAPTURE"}
      BY <1>1, <1>3, <2>1, QuietCycle
    <2>3. writer'.phase = "off" => store'.valid = {}
      <3> SUFFICES ASSUME writer'.phase = "off" PROVE store'.valid = {}
        OBVIOUS
      <3>1. writer.phase \in {"off", "drop"}
        BY <1>1, MovedFields, TakesFields
      <3>2. CASE writer.phase = "off"
        BY <1>1, <3>2, StillCycle DEF QuietUnlessUp
      <3>3. CASE writer.phase = "drop"
        BY <1>1, <3>3, ClearCycle
      <3> QED
        BY <3>1, <3>2, <3>3
    <2>4. exporter'.state = "IDLE"
      BY <1>3, ExporterNext
    <2> QED
      BY <2>1, <2>2, <2>3, <2>4 DEF QuietUnlessUp
  <1> QED
    BY <1>2, <1>3

\* The answer to the exporter stays true.
LEMMA AnswersTrueNext ==
  ASSUME Shape, CapturePlaced, ScanPlaced, QuietUnlessUp, AnswersTrue, ServeTrue, NothingQueued,
         NEW x, NEW offer, NEW token, NEW received, NEW start, NEW ready,
         Moved(x, offer, token, received, start, ready)
  PROVE  AnswersTrue'
  <1>1. StoreCycle(x, offer)
    BY DEF Moved
  <1>2. CASE writer.phase = "up"
    BY <1>1, <1>2, AnswersTrueUp
  <1>3. CASE writer.phase # "up"
    <2>1. x.serve_request = NoKey /\ ~x.serve_cancel
      BY <1>3, QuietMoves
    <2>2. /\ ~store'.export.valid
          /\ store'.admin.state \in {"IDLE", "CAPTURE"}
      BY <1>1, <1>3, <2>1, QuietCycle
    <2> QED
      BY <2>2 DEF AnswersTrue
  <1> QED
    BY <1>2, <1>3

\* So does what the clone found.
LEMMA ServeTrueNext ==
  ASSUME Shape, CapturePlaced, QuietUnlessUp, ServeTrue, NothingQueued,
         NEW x, NEW offer, NEW token, NEW received, NEW start, NEW ready,
         Moved(x, offer, token, received, start, ready)
  PROVE  ServeTrue'
  <1>1. StoreCycle(x, offer)
    BY DEF Moved
  <1>2. CASE writer.phase = "up"
    BY <1>1, <1>2, ServeTrueUp
  <1>3. CASE writer.phase # "up"
    <2>1. x.serve_request = NoKey /\ ~x.serve_cancel
      BY <1>3, QuietMoves
    <2>2. /\ ~store'.serve.busy /\ ~store'.serve.selected /\ ~store'.serve.found
          /\ ~store'.serve.response
      BY <1>1, <1>3, <2>1, QuietCycle
    <2>3. /\ store'.serve \in Serves
      <3>1. CASE writer.phase \in {"clear", "drop"}
        BY <1>1, <3>1, ClearCycle, ResetTypes
      <3>2. CASE writer.phase \notin {"clear", "drop"}
        BY <1>1, <3>2, ScanCycle, ServeTyped DEF StoreCycle, Shape
      <3> QED
        BY <3>1, <3>2
    <2> DEFINE n == store'.serve
    <2>4. n.selected = n.found
      <3>1. n.selected \in BOOLEAN /\ n.found \in BOOLEAN
        BY <2>3, ServeParts
      <3> QED
        BY <2>2, <3>1
    <2> QED
      BY <2>2, <2>4 DEF ServeTrue
  <1> QED
    BY <1>2, <1>3
-----------------------------------------------------------------------------
(***************************************************************************)
(* Types of the whole, and what the clone's port reads.                    *)
(***************************************************************************)

\* An entry is whole, and in the memory.
LEMMA EntryWhole ==
  ASSUME Shape, CapturePlaced, DirectoryWhole, writer.phase # "clear",
         NEW key, NEW start, NEW length, EntryIn(store, key, start, length)
  PROVE  /\ start \in Nat /\ length \in Nat
         /\ start + length <= store.allocator /\ start + length <= StoreSize
         /\ \A i \in 0..(length - 1) : store.memory[start + i] = <<key, writer.session, i>>
         /\ \E j \in MatchIn(store, key) : store.directory[j].length = length
         /\ \A j \in MatchIn(store, key) : store.directory[j].length = length
  <1>1. PICK j \in store.valid :
           store.directory[j] = [key |-> key, start |-> start, length |-> length]
    BY DEF EntryIn
  <1>2. store.directory[j].key = key /\ store.directory[j].start = start
        /\ store.directory[j].length = length
    BY <1>1
  <1>3. store.directory[j] \in Records
    BY StoreParts DEF Shape
  <1>4. start \in Nat /\ length \in Nat
    BY <1>2, <1>3 DEF Records
  <1>5. HeldWhole(key, start, length)
    BY <1>1, <1>2 DEF DirectoryWhole
  <1>6. Limit \in Nat /\ Limit <= store.allocator /\ store.allocator \in Nat
        /\ store.allocator <= StoreSize
    BY LimitIn
  <1>7. start + length <= Limit
        /\ \A i \in 0..(length - 1) : store.memory[start + i] = <<key, writer.session, i>>
    BY <1>5 DEF HeldWhole, HeldIn
  <1>8. start + length <= store.allocator /\ start + length <= StoreSize
    BY <1>4, <1>6, <1>7, Sizes
  <1>9. j \in MatchIn(store, key) /\ \A k \in MatchIn(store, key) : k = j
    BY <1>1, <1>2 DEF DirectoryWhole, MatchIn
  <1> QED
    BY <1>2, <1>4, <1>7, <1>8, <1>9

\* What the clone's port reads in range is the byte of the key it looked up.
LEMMA ReadInRange ==
  ASSUME Shape, CapturePlaced, DirectoryWhole, QuietUnlessUp, ServeTrue,
         NEW x, x.offset \in Nat, serve_in_range(store, x)
  PROVE  LET h == serve_hit(store)
         IN  /\ EntryIn(store, store.serve.key, h.start, h.length) /\ x.offset < h.length
             /\ h.start + x.offset \in 0..(StoreSize - 1)
             /\ store.memory[h.start + x.offset] = <<store.serve.key, writer.session, x.offset>>
  <1> DEFINE h == serve_hit(store)
             d == store.directory[store.serve.slot]
  <1>1. writer.phase # "clear"
    BY DEF serve_in_range, serve_match_now, QuietUnlessUp
  <1>2. EntryIn(store, store.serve.key, h.start, h.length)
    <2>1. CASE serve_match_now(store)
      <3>1. h.start = d.start /\ h.length = d.length
        BY <2>1 DEF serve_hit
      <3>2. store.serve.slot \in store.valid /\ d.key = store.serve.key
        BY <2>1 DEF serve_match_now, serve_matches
      <3>3. d \in Records
        BY <3>2, StoreParts DEF Shape
      <3>4. d = [key |-> d.key, start |-> d.start, length |-> d.length]
        BY <3>3 DEF Records
      <3> QED
        BY <3>1, <3>2, <3>4 DEF EntryIn
    <2>2. CASE ~serve_match_now(store)
      <3>1. h.start = store.serve.start /\ h.length = store.serve.length
        BY <2>2 DEF serve_hit
      <3>2. store.serve.selected
        BY <2>2 DEF serve_in_range
      <3> QED
        BY <3>1, <3>2 DEF ServeTrue, InDirectory
    <2> QED
      BY <2>1, <2>2
  <1>3. x.offset < h.length
    BY DEF serve_in_range
  <1> HIDE DEF h
  <1>4. /\ h.start \in Nat /\ h.length \in Nat /\ h.start + h.length <= StoreSize
        /\ \A i \in 0..(h.length - 1) :
              store.memory[h.start + i] = <<store.serve.key, writer.session, i>>
    BY <1>1, <1>2, EntryWhole
  <1>5. x.offset \in 0..(h.length - 1) /\ h.start + x.offset \in 0..(StoreSize - 1)
    BY <1>3, <1>4, Sizes
  <1> QED
    BY <1>2, <1>3, <1>4, <1>5 DEF h

\* The store before anything is written.
LEMMA OffTyped ==
  StoreOff \in Stores
  <1>1. /\ {} \in SUBSET Entry /\ 0 \in 0..StoreSize /\ FALSE \in BOOLEAN
        /\ NoExport \in Exports
        /\ [i \in Entry |-> NoRecord] \in [Entry -> Records]
        /\ [a \in 0..(StoreSize - 1) |-> NoByte] \in [0..(StoreSize - 1) -> Bytes]
    BY ResetTypes, Sizes
  <1> QED
    BY <1>1, ResetTypes, Zenon DEF StoreOff, Stores

\* A cycle of the store keeps its types.
LEMMA StoreTyped ==
  ASSUME Shape, CapturePlaced, DirectoryWhole, QuietUnlessUp, ServeTrue,
         NEW x, NEW offer, StoreCycle(x, offer)
  PROVE  store' \in Stores
  <1> DEFINE read == IF serve_in_range(store, x)
                     THEN store.memory[serve_hit(store).start + x.offset] ELSE store.memory[0]
             owner == serve_in_range(store, x)
             memory == MemoryStep(store, x)
  <1>1. store \in Stores /\ store.memory \in [0..(StoreSize - 1) -> Bytes]
    BY StoreParts DEF Shape
  <1>2. read \in Bytes
    <2>1. serve_in_range(store, x) =>
            serve_hit(store).start + x.offset \in 0..(StoreSize - 1)
      BY ReadInRange DEF StoreCycle
    <2>2. 0 \in 0..(StoreSize - 1)
      BY Sizes
    <2> QED
      BY <1>1, <2>1, <2>2
  <1>3. owner \in BOOLEAN
    BY DEF serve_in_range, serve_match_now, serve_matches
  <1>4. memory \in [0..(StoreSize - 1) -> Bytes]
    BY <1>1, MemoryTyped DEF StoreCycle, WriterSees
  <1>5. store' = StoreStep(store, x)
    BY DEF StoreCycle
  <1>6. CASE x.clear
    <2> DEFINE c == Cleared(store)
               off == StoreOff
    <2>1. c \in Stores
      <3>1. off \in Stores
        BY OffTyped
      <3>2. c = [off EXCEPT !.directory = store.directory, !.memory = store.memory]
        BY DEF Cleared
      <3>3. store.directory \in [Entry -> Records]
        BY <1>1, StoreParts
      <3> HIDE DEF off, c
      <3> QED
        BY <1>1, <3>1, <3>2, <3>3, Zenon DEF Stores
    <2>2. store' = [[c EXCEPT !.memory = memory] EXCEPT !.owner_q = owner, !.read_q = read]
      BY <1>5, <1>6 DEF StoreStep
    <2> HIDE DEF c, memory, read, owner
    <2> QED
      BY <1>2, <1>3, <1>4, <2>1, <2>2, Zenon DEF Stores
  <1>7. CASE ~x.clear
    <2> DEFINE directory == DirectoryStep(store, x)
               valid == IF capture_commit_ok(store, x) THEN store.valid \cup {store.capture.slot}
                        ELSE store.valid
               allocator == AllocatorStep(store, x)
               capture == CaptureStep(store, x)
               admin == AdminStep(store, x)
               pending == PendingStep(store, x)
               answer == ExportStep(store, x)
               serve == ServeStep(store, x)
    <2>1. directory \in [Entry -> Records] /\ admin \in Admins
          /\ answer \in Exports
      BY <1>1, DirectoryTyped, AdminTyped, ExportTyped
    <2>2. capture \in Captures /\ pending \in Pendings /\ serve \in Serves
      BY <1>1, CaptureTyped, PendingTyped, ServeTyped DEF StoreCycle, WriterSees
    <2>3. allocator \in 0..StoreSize
      BY <1>1, AllocatorTyped DEF CapturePlaced
    <2>4. valid \in SUBSET Entry
      BY <1>1, StoreParts, CaptureParts
    <2>5. store' = [[store EXCEPT !.directory = directory, !.valid = valid, !.memory = memory,
                                  !.allocator = allocator, !.capture = capture, !.admin = admin,
                                  !.pending = pending, !.export = answer, !.serve = serve]
                      EXCEPT !.owner_q = owner, !.read_q = read]
      BY <1>5, <1>7 DEF StoreStep
    <2> HIDE DEF directory, valid, memory, allocator, capture, admin, pending, answer, serve,
                 owner, read
    <2> QED
      BY <1>1, <1>2, <1>3, <1>4, <2>1, <2>2, <2>3, <2>4, <2>5, Zenon DEF Stores
  <1> QED
    BY <1>6, <1>7
-----------------------------------------------------------------------------
(***************************************************************************)
(* The streamer.                                                           *)
(***************************************************************************)
LEMMA StreamerParts ==
  ASSUME NEW t \in Streamers
  PROVE  /\ t.prepared \in BOOLEAN /\ t.prepared_found \in BOOLEAN /\ t.prepare_queued \in BOOLEAN
         /\ t.lookup_pending \in BOOLEAN /\ t.start_pending \in BOOLEAN
         /\ t.start_deferred \in BOOLEAN /\ t.active \in BOOLEAN /\ t.zlp \in BOOLEAN
         /\ t.stall \in BOOLEAN
         /\ t.request_length \in Nat /\ t.request_start \in Nat /\ t.pos \in Nat /\ t.pos + 1 \in Nat
         /\ t.chunk_end \in Nat
  BY DEF Streamers

\* What two states of the streamer have in common, its packet apart.
SameLookup(n, t) ==
    /\ n.prepared = t.prepared /\ n.prepared_found = t.prepared_found
    /\ n.prepare_queued = t.prepare_queued /\ n.lookup_pending = t.lookup_pending
SameRequest(n, t) ==
    /\ n.start_pending = t.start_pending /\ n.start_deferred = t.start_deferred
    /\ n.request_length = t.request_length /\ n.request_start = t.request_start
SamePacket(n, t) ==
    /\ n.pos = t.pos /\ n.chunk_end = t.chunk_end
    /\ n.active = t.active /\ n.zlp = t.zlp /\ n.stall = t.stall

\* A packet that is armed: of bytes, of none, or a stall.
LEMMA ArmedFields ==
  ASSUME NEW u \in Streamers, NEW s \in Stores, NEW found \in BOOLEAN,
         NEW from \in Nat, NEW wanted \in Nat
  PROVE  LET n == Armed(u, s, found, from, wanted)
             length == Lesser(s.serve.length, wanted)
         IN  /\ n \in Streamers /\ SameLookup(n, u) /\ SameRequest(n, u)
             /\ ~found \/ length = 0 => n.stall /\ n.active = u.active /\ n.zlp = u.zlp
             /\ found /\ length # 0 /\ from >= length =>
                  ~n.stall /\ n.active = u.active /\ n.zlp
             /\ found /\ length # 0 /\ ~(from >= length) =>
                  /\ ~n.stall /\ n.active /\ n.zlp = u.zlp /\ n.pos = from
                  /\ n.chunk_end = Lesser(length, from + MaxPacketSize0)
  <1> DEFINE length == Lesser(s.serve.length, wanted)
             end == Lesser(length, from + MaxPacketSize0)
             n == Armed(u, s, found, from, wanted)
  <1>1. length \in Nat /\ end \in Nat
    BY StoreParts, ServeParts, Sizes DEF Lesser
  <1>2. n = IF ~found \/ length = 0 THEN [u EXCEPT !.stall = TRUE]
            ELSE IF from >= length THEN [u EXCEPT !.zlp = TRUE, !.stall = FALSE]
            ELSE [u EXCEPT !.active = TRUE, !.pos = from, !.stall = FALSE, !.chunk_end = end]
    BY DEF Armed
  <1> HIDE DEF length, end, n
  <1>3. CASE ~found \/ length = 0
    <2>1. n = [u EXCEPT !.stall = TRUE]
      BY <1>2, <1>3
    <2>2. /\ n \in Streamers /\ SameLookup(n, u) /\ SameRequest(n, u)
          /\ n.stall = TRUE /\ n.active = u.active /\ n.zlp = u.zlp
      BY <2>1, Zenon DEF Streamers, SameLookup, SameRequest
    <2> QED
      BY <1>3, <2>2 DEF length, n
  <1>4. CASE ~(~found \/ length = 0) /\ from >= length
    <2>1. n = [u EXCEPT !.zlp = TRUE, !.stall = FALSE]
      BY <1>2, <1>4
    <2>2. /\ n \in Streamers /\ SameLookup(n, u) /\ SameRequest(n, u)
          /\ n.stall = FALSE /\ n.active = u.active /\ n.zlp = TRUE
      BY <2>1, Zenon DEF Streamers, SameLookup, SameRequest
    <2> QED
      BY <1>4, <2>2 DEF length, n
  <1>5. CASE ~(~found \/ length = 0) /\ ~(from >= length)
    <2>1. n = [u EXCEPT !.active = TRUE, !.pos = from, !.stall = FALSE, !.chunk_end = end]
      BY <1>2, <1>5
    <2>2. /\ n \in Streamers /\ SameLookup(n, u) /\ SameRequest(n, u)
          /\ n.stall = FALSE /\ n.active = TRUE /\ n.zlp = u.zlp /\ n.pos = from
          /\ n.chunk_end = end
      BY <1>1, <2>1, Zenon DEF Streamers, SameLookup, SameRequest
    <2> QED
      BY <1>5, <2>2 DEF length, n, end
  <1> QED
    BY <1>3, <1>4, <1>5

\* A start that is replayed is replayed once.
Unreplayed(t) == [t EXCEPT !.start_deferred = FALSE]
AnswerSeen(t, i, s) ==
    [Unreplayed(t) EXCEPT !.lookup_pending = FALSE, !.prepared = TRUE,
                          !.prepared_found = s.serve.found,
                          !.start_deferred = start_replayed(t, i)]
Requested(t, i) ==
    [Unreplayed(t) EXCEPT !.request_length = i.length, !.request_start = i.start_position,
                          !.stall = FALSE]

\* The steps of a streamer that asks the store for no lookup.
LEMMA StreamerCases ==
  ASSUME NEW t \in Streamers, NEW i, NEW s, NEW x, ~i.cancel, ~i.prepare,
         serve_request(t, i) = NoKey
  PROVE  LET n == StreamerStep(t, i, s, x)
             u == Unreplayed(t)
             answered == s.serve.response /\ t.lookup_pending
             starts == (i.start \/ t.start_deferred) /\ ~t.active
         IN  /\ t.active /\ i.ready =>
                  n = IF t.pos = t.chunk_end - 1 THEN [u EXCEPT !.active = FALSE]
                      ELSE [u EXCEPT !.pos = t.pos + 1]
             /\ ~(t.active /\ i.ready) =>
                  /\ t.zlp => n = [u EXCEPT !.zlp = FALSE]
                  /\ ~t.zlp =>
                       /\ answered /\ ~t.start_pending => n = AnswerSeen(t, i, s)
                       /\ answered /\ t.start_pending =>
                            n = Armed([AnswerSeen(t, i, s) EXCEPT !.start_pending = FALSE], s,
                                      s.serve.found, t.request_start, t.request_length)
                       /\ ~answered /\ starts /\ t.prepared =>
                            n = Armed(Requested(t, i), s, t.prepared_found, i.start_position, i.length)
                       /\ ~answered /\ starts /\ ~t.prepared =>
                            n = [Requested(t, i) EXCEPT !.start_pending = TRUE]
                       /\ ~answered /\ ~starts => n = u
  BY DEF StreamerStep, Unreplayed, AnswerSeen, Requested, Answered, Started, answer_taken

\* Only the deferred start is reset.
LEMMA UnreplayedFields ==
  ASSUME NEW t \in Streamers
  PROVE  LET u == Unreplayed(t)
         IN  /\ u \in Streamers /\ SameLookup(u, t) /\ SamePacket(u, t)
             /\ u.start_deferred = FALSE /\ u.start_pending = t.start_pending
             /\ u.request_length = t.request_length /\ u.request_start = t.request_start
  BY Zenon DEF Streamers, Unreplayed, SameLookup, SamePacket

\* A packet that goes on, and one that is over.
LEMMA SentFields ==
  ASSUME NEW u \in Streamers
  PROVE  /\ LET n == [u EXCEPT !.active = FALSE]
            IN  /\ n \in Streamers /\ SameLookup(n, u) /\ SameRequest(n, u)
                /\ n.active = FALSE /\ n.zlp = u.zlp /\ n.stall = u.stall
         /\ \A p \in Nat :
              LET n == [u EXCEPT !.pos = p]
              IN  /\ n \in Streamers /\ SameLookup(n, u) /\ SameRequest(n, u)
                  /\ n.pos = p /\ n.chunk_end = u.chunk_end
                  /\ n.active = u.active /\ n.zlp = u.zlp /\ n.stall = u.stall
         /\ LET n == [u EXCEPT !.zlp = FALSE]
            IN  /\ n \in Streamers /\ SameLookup(n, u) /\ SameRequest(n, u)
                /\ n.active = u.active /\ n.zlp = FALSE /\ n.stall = u.stall
         /\ LET n == [u EXCEPT !.start_pending = FALSE]
            IN  /\ n \in Streamers /\ SameLookup(n, u) /\ SamePacket(n, u)
                /\ n.start_pending = FALSE /\ n.start_deferred = u.start_deferred
                /\ n.request_length = u.request_length /\ n.request_start = u.request_start
         /\ LET n == [u EXCEPT !.start_pending = TRUE]
            IN  /\ n \in Streamers /\ SameLookup(n, u) /\ SamePacket(n, u)
                /\ n.start_pending = TRUE /\ n.start_deferred = u.start_deferred
                /\ n.request_length = u.request_length /\ n.request_start = u.request_start
  BY Zenon DEF Streamers, SameLookup, SameRequest, SamePacket

\* The store's answer: the lookup is over, and a start it meets is deferred.
LEMMA AnswerFields ==
  ASSUME NEW t \in Streamers, NEW i, NEW s \in Stores, i.start \in BOOLEAN
  PROVE  LET v == AnswerSeen(t, i, s)
         IN  /\ v \in Streamers /\ SamePacket(v, t)
             /\ v.prepared /\ ~v.lookup_pending /\ v.prepared_found = s.serve.found
             /\ v.prepare_queued = t.prepare_queued
             /\ v.start_pending = t.start_pending
             /\ (v.start_deferred <=> i.start /\ ~t.start_pending)
  <1> DEFINE u == Unreplayed(t)
             found == s.serve.found
             replayed == start_replayed(t, i)
  <1>1. /\ u \in Streamers /\ SamePacket(u, t) /\ u.start_pending = t.start_pending
        /\ u.prepare_queued = t.prepare_queued
    BY UnreplayedFields DEF SameLookup
  <1>2. found \in BOOLEAN /\ replayed \in BOOLEAN
    BY StoreParts, ServeParts, StreamerParts DEF start_replayed
  <1>5. replayed <=> i.start /\ ~t.start_pending
    BY DEF start_replayed
  <1>3. AnswerSeen(t, i, s) = [u EXCEPT !.lookup_pending = FALSE, !.prepared = TRUE,
                                        !.prepared_found = found, !.start_deferred = replayed]
    BY DEF AnswerSeen
  <1> HIDE DEF u, found, replayed
  <1>4. LET v == AnswerSeen(t, i, s)
        IN  /\ v \in Streamers /\ SamePacket(v, u)
            /\ v.prepared = TRUE /\ v.lookup_pending = FALSE /\ v.prepared_found = found
            /\ v.prepare_queued = u.prepare_queued
            /\ v.start_pending = u.start_pending /\ v.start_deferred = replayed
    BY <1>1, <1>2, <1>3, Zenon DEF Streamers, SamePacket
  <1> QED
    BY <1>1, <1>2, <1>4, <1>5 DEF SamePacket, found

\* A start notes its request.
LEMMA RequestedFields ==
  ASSUME NEW t \in Streamers, NEW i, i.length \in Nat, i.start_position \in Nat
  PROVE  LET v == Requested(t, i)
         IN  /\ v \in Streamers /\ SameLookup(v, t)
             /\ v.active = t.active /\ v.zlp = t.zlp /\ ~v.stall
             /\ v.start_pending = t.start_pending /\ ~v.start_deferred
             /\ v.request_length = i.length /\ v.request_start = i.start_position
  <1> DEFINE u == Unreplayed(t)
  <1>1. /\ u \in Streamers /\ SameLookup(u, t) /\ SamePacket(u, t)
        /\ u.start_deferred = FALSE /\ u.start_pending = t.start_pending
    BY UnreplayedFields
  <1>2. Requested(t, i) = [u EXCEPT !.request_length = i.length,
                                    !.request_start = i.start_position, !.stall = FALSE]
    BY DEF Requested
  <1> HIDE DEF u
  <1>3. LET v == Requested(t, i)
        IN  /\ v \in Streamers /\ SameLookup(v, u)
            /\ v.active = u.active /\ v.zlp = u.zlp /\ v.stall = FALSE
            /\ v.start_pending = u.start_pending /\ v.start_deferred = u.start_deferred
            /\ v.request_length = i.length /\ v.request_start = i.start_position
    BY <1>1, <1>2, Zenon DEF Streamers, SameLookup
  <1> QED
    BY <1>1, <1>3 DEF SameLookup, SamePacket

\* A step without a request keeps the streamer's types.
LEMMA StreamerTyped ==
  ASSUME NEW t \in Streamers, NEW i, NEW s \in Stores, NEW x, ~i.cancel, ~i.prepare,
         serve_request(t, i) = NoKey,
         i.start \in BOOLEAN, i.length \in Nat, i.start_position \in Nat
  PROVE  LET n == StreamerStep(t, i, s, x)
         IN  n \in Streamers /\ n.prepare_queued = t.prepare_queued
  <1> DEFINE n == StreamerStep(t, i, s, x)
             u == Unreplayed(t)
             v == AnswerSeen(t, i, s)
             w == Requested(t, i)
             answered == s.serve.response /\ t.lookup_pending
             starts == (i.start \/ t.start_deferred) /\ ~t.active
             Good(y) == y \in Streamers /\ y.prepare_queued = t.prepare_queued
  <1>1. Good(u) /\ Good(v) /\ Good(w)
    <2>1. Good(u)
      BY UnreplayedFields DEF SameLookup
    <2>2. Good(v)
      <3>1. v \in Streamers /\ v.prepare_queued = t.prepare_queued
        BY AnswerFields
      <3> QED
        BY <3>1
    <2>3. Good(w)
      BY RequestedFields DEF SameLookup
    <2> QED
      BY <2>1, <2>2, <2>3
  <1>2. t.pos + 1 \in Nat /\ t.request_start \in Nat /\ t.request_length \in Nat
        /\ t.prepared_found \in BOOLEAN
    BY StreamerParts
  <1>3. s.serve.found \in BOOLEAN
    BY StoreParts, ServeParts
  <1>9. ASSUME NEW y, Good(y), NEW found \in BOOLEAN, NEW from \in Nat, NEW wanted \in Nat
        PROVE  Good(Armed(y, s, found, from, wanted))
    <2> DEFINE a == Armed(y, s, found, from, wanted)
    <2>1. y \in Streamers /\ y.prepare_queued = t.prepare_queued
      BY <1>9
    <2>2. a \in Streamers /\ SameLookup(a, y)
      BY <2>1, ArmedFields, Zenon
    <2> HIDE DEF a
    <2>3. Good(a)
      BY <2>1, <2>2 DEF SameLookup
    <2> QED
      BY <2>3 DEF a
  <1>10. ASSUME NEW y, Good(y)
         PROVE  /\ Good([y EXCEPT !.active = FALSE]) /\ Good([y EXCEPT !.zlp = FALSE])
                /\ \A p \in Nat : Good([y EXCEPT !.pos = p])
                /\ Good([y EXCEPT !.start_pending = FALSE]) /\ Good([y EXCEPT !.start_pending = TRUE])
    BY <1>10, SentFields DEF SameLookup
  <1>11. Good([u EXCEPT !.active = FALSE]) /\ Good([u EXCEPT !.pos = t.pos + 1])
         /\ Good([u EXCEPT !.zlp = FALSE]) /\ Good([v EXCEPT !.start_pending = FALSE])
         /\ Good([w EXCEPT !.start_pending = TRUE])
    <2> HIDE DEF u, v, w, Good
    <2> QED
      BY <1>1, <1>2, <1>10
  <1>12. /\ Good(Armed([v EXCEPT !.start_pending = FALSE], s, s.serve.found,
                        t.request_start, t.request_length))
         /\ Good(Armed(w, s, t.prepared_found, i.start_position, i.length))
    <2> HIDE DEF u, v, w, Good
    <2> QED
      BY <1>1, <1>2, <1>3, <1>9, <1>11
  <1>7. /\ t.active /\ i.ready =>
             n = IF t.pos = t.chunk_end - 1 THEN [u EXCEPT !.active = FALSE]
                 ELSE [u EXCEPT !.pos = t.pos + 1]
        /\ ~(t.active /\ i.ready) =>
             /\ t.zlp => n = [u EXCEPT !.zlp = FALSE]
             /\ ~t.zlp =>
                  /\ answered /\ ~t.start_pending => n = v
                  /\ answered /\ t.start_pending =>
                       n = Armed([v EXCEPT !.start_pending = FALSE], s,
                                 s.serve.found, t.request_start, t.request_length)
                  /\ ~answered /\ starts /\ t.prepared =>
                       n = Armed(w, s, t.prepared_found, i.start_position, i.length)
                  /\ ~answered /\ starts /\ ~t.prepared => n = [w EXCEPT !.start_pending = TRUE]
                  /\ ~answered /\ ~starts => n = u
    BY StreamerCases
  <1>8. Good(n)
    <2> HIDE DEF n, u, v, w, answered, starts, Good
    <2> QED
      BY <1>1, <1>7, <1>11, <1>12
  <1> QED
    BY <1>8

\* A transfer's registers.
LEMMA TransferParts ==
  ASSUME Shape
  PROVE  /\ pc \in Transfers /\ pc.key \in KeyNames /\ pc.length \in Nat /\ pc.position \in Nat
         /\ pc.acked \in Nat /\ pc.bytes \in Nat /\ pc.bytes + 1 \in Nat
         /\ pc.acked + pc.bytes \in Nat /\ pc.position + MaxPacketSize0 \in Nat
         /\ pc.phase \in {"idle", "setup", "ready", "packet", "acking", "done", "stalled"}
  BY Sizes DEF Shape, Transfers

\* A cycle without a request and a cancel: the clone's scan goes on, and its
\* answer stays.
LEMMA ServeAnswers ==
  ASSUME Shape, CapturePlaced, ServeTrue, NEW x, NEW offer, StoreCycle(x, offer),
         writer.phase = "up", ~x.serve_cancel, x.serve_request = NoKey
  PROVE  /\ store'.serve.key = store.serve.key
         /\ ~store.serve.busy =>
              /\ ~store'.serve.busy /\ store'.serve.selected = store.serve.selected
              /\ store'.serve.length = store.serve.length
         /\ store.serve.busy => store'.serve.busy \/ store'.serve.response
         /\ store.serve.response => ~store.serve.busy
  <1> DEFINE v == store.serve
             n == store'.serve
             d == store.directory[v.slot]
  <1>1. n = ServeStep(store, x) /\ ~capture_commit_ok(store, x)
    BY StillCycle, ScanCycle
  <1>2. store \in Stores /\ v \in Serves /\ d \in Records /\ v.busy \in BOOLEAN
    BY StoreParts, ServeParts DEF Shape
  <1>3. ~ServeDrops(store, x) /\ ~Asking(store, x)
    BY <1>1 DEF ServeDrops, Asking
  <1>4. v.response => ~v.busy
    BY DEF ServeTrue
  <1>5. CASE ~v.busy
    <2>1. n = Held(v)
      BY <1>1, <1>2, <1>3, <1>5, ServeCases
    <2> HIDE DEF n, v
    <2>2. n.busy = v.busy /\ n.selected = v.selected /\ n.key = v.key /\ n.length = v.length
      BY <1>2, <2>1, ServeMoves
    <2> QED
      BY <1>4, <1>5, <2>2 DEF n, v
  <1>6. CASE v.busy
    <2>1. n \in {Primed(v), Selected(v, d), Missed(v)} \/ (~ServeScanned(v) /\ n = Advanced(v))
      BY <1>1, <1>2, <1>3, <1>6, ServeCases
    <2> HIDE DEF n, v, d
    <2>2. n.key = v.key /\ (n.busy \/ n.response)
      <3>1. CASE n = Primed(v)
        BY <1>2, <1>6, <3>1, ServeMoves
      <3>2. CASE n = Selected(v, d)
        BY <1>2, <3>2, ServeFields
      <3>3. CASE n = Missed(v)
        BY <1>2, <3>3, ServeFields
      <3>4. CASE ~ServeScanned(v) /\ n = Advanced(v)
        BY <1>2, <1>6, <3>4, ServeMoves
      <3> QED
        BY <2>1, <3>1, <3>2, <3>3, <3>4
    <2> QED
      BY <1>4, <1>6, <2>2 DEF n, v
  <1> QED
    BY <1>5, <1>6

\* A request of the cycle that cancels the lookup before it starts the new one.
LEMMA ServeAsked ==
  ASSUME Shape, CapturePlaced, NEW x, NEW offer, StoreCycle(x, offer),
         writer.phase = "up", x.serve_cancel, x.serve_request # NoKey
  PROVE  serve_ready(store, x) /\ store'.serve.busy /\ store'.serve.key = x.serve_request
  <1>1. store'.serve = ServeStep(store, x) /\ ~capture_commit_ok(store, x) /\ ~x.clear
    BY StillCycle, ScanCycle
  <1>2. store \in Stores /\ store.serve \in Serves /\ x.serve_request \in KeyNames
    BY StoreParts DEF Shape, StoreCycle
  <1>3. serve_ready(store, x)
    BY <1>1 DEF serve_ready
  <1>4. ~ServeDrops(store, x) /\ Asking(store, x)
    BY <1>1, <1>3 DEF ServeDrops, Asking
  <1>5. store'.serve = Sought(store.serve, x.serve_request)
    BY <1>1, <1>2, <1>4, ServeCases
  <1> DEFINE n == store'.serve
             v == store.serve
  <1> HIDE DEF n, v
  <1>6. n.busy /\ n.key = x.serve_request
    <2>1. n = Sought(v, x.serve_request) /\ v \in Serves
      BY <1>2, <1>5 DEF n, v
    <2> QED
      BY <1>2, <2>1, ServeFields
  <1> QED
    BY <1>3, <1>6 DEF n

\* The byte after the next edge is the one at the offset, of the key looked up.
LEMMA ReadsRight ==
  ASSUME Shape, CapturePlaced, DirectoryWhole, QuietUnlessUp, ServeTrue,
         NEW x, NEW offer, StoreCycle(x, offer), writer.phase = "up",
         store.serve.selected, ~store.serve.busy, x.read_enable, x.offset < store.serve.length
  PROVE  store'.owner_q /\ store'.read_q = <<store.serve.key, writer.session, x.offset>>
  <1>1. store' = StoreStep(store, x) /\ store \in Stores /\ ~x.clear /\ x.offset \in Nat
    BY ScanCycle DEF StoreCycle, Shape
  <1>2. ~serve_match_now(store)
    BY DEF serve_match_now
  <1>3. serve_hit(store) = [found |-> store.serve.found, start |-> store.serve.start,
                            length |-> store.serve.length]
    BY <1>2 DEF serve_hit
  <1>4. store.serve.found
    BY DEF ServeTrue
  <1>5. serve_in_range(store, x)
    BY <1>3, <1>4 DEF serve_in_range
  <1>6. store.memory[serve_hit(store).start + x.offset]
          = <<store.serve.key, writer.session, x.offset>>
    BY <1>1, <1>5, ReadInRange
  <1>7. StoreStep(store, x).owner_q = serve_in_range(store, x)
        /\ StoreStep(store, x).read_q = IF serve_in_range(store, x)
             THEN store.memory[serve_hit(store).start + x.offset] ELSE store.memory[0]
    BY <1>1, StoreFields
  <1> QED
    BY <1>1, <1>5, <1>6, <1>7

\* What the clone selected is an entry of the directory, and has bytes.
LEMMA SelectedEntry ==
  ASSUME Shape, WriterPlaced, CapturePlaced, DirectoryWhole, ServeTrue, writer.phase = "up",
         store.serve.selected
  PROVE  /\ store.serve.length \in Nat /\ store.serve.length # 0
         /\ \E j \in Match(store.serve.key) : TRUE
         /\ \A j \in Match(store.serve.key) : store.directory[j].length = store.serve.length
  <1> DEFINE v == store.serve
  <1>1. EntryIn(store, v.key, v.start, v.length)
    BY DEF ServeTrue, InDirectory
  <1>2. /\ v.length \in Nat
        /\ \E j \in MatchIn(store, v.key) : store.directory[j].length = v.length
        /\ \A j \in MatchIn(store, v.key) : store.directory[j].length = v.length
    BY <1>1, EntryWhole
  <1>3. PICK j \in store.valid : store.directory[j] = [key |-> v.key, start |-> v.start,
                                                       length |-> v.length]
    BY <1>1 DEF EntryIn
  <1>4. store.directory[j].key = v.key /\ store.directory[j].length = v.length
    BY <1>3
  <1>5. PICK k \in DOMAIN script : script[k] = <<v.key, v.length>>
    BY <1>3, <1>4 DEF DirectoryWhole
  <1>6. script \in Seq(Keys \X (Nat \ {0}))
    BY ScriptParts DEF WriterPlaced
  <1>7. v.length # 0
    <2>1. script[k] \in Keys \X (Nat \ {0})
      BY <1>6
    <2> QED
      BY <1>5, <2>1
  <1> QED
    BY <1>2, <1>7 DEF Match

\* What the handler strobes, and the fields of the request.
LEMMA InputFields ==
  ASSUME NEW received, NEW start, NEW ready
  PROVE  LET i == Inputs(received, start, ready)
         IN  /\ (i.prepare <=> received = "descriptor") /\ (i.cancel <=> received = "other")
             /\ i.start = start /\ i.ready = ready
             /\ i.key = pc.key /\ i.length = pc.length /\ i.start_position = pc.position
  BY DEF Inputs

\* Without the data of a SETUP the streamer asks for nothing: a start finds its
\* lookup on its way or answered.
LEMMA NothingAsked ==
  ASSUME Shape, NothingQueued, writer.phase = "up" => TransferPlaced,
         NEW x, NEW offer, NEW token, NEW start, NEW ready,
         Moved(x, offer, token, "none", start, ready)
  PROVE  LET i == Inputs("none", start, ready)
         IN  /\ ~i.cancel /\ ~i.prepare /\ serve_request(streamer, i) = NoKey
             /\ i.start \in BOOLEAN /\ i.length \in Nat /\ i.start_position \in Nat
             /\ x.serve_request = NoKey /\ ~x.serve_cancel
  <1> DEFINE i == Inputs("none", start, ready)
  <1>1. /\ ~i.cancel /\ ~i.prepare /\ i.start = start
        /\ i.length = pc.length /\ i.start_position = pc.position
    BY InputFields
  <1>2. start \in BOOLEAN /\ pc.length \in Nat /\ pc.position \in Nat
    BY TransferParts DEF Moved
  <1>3. start => streamer.prepared \/ streamer.lookup_pending
    BY DEF Moved, connected, TransferPlaced, ReadyPlaced, LookupOn, LookupDone
  <1> HIDE DEF i
  <1>4. ~need_prepare(streamer, i)
    BY <1>1, <1>3 DEF need_prepare
  <1>5. serve_request(streamer, i) = NoKey /\ ~serve_cancel(streamer, i)
    BY <1>1, <1>4 DEF serve_request, serve_cancel, NothingQueued
  <1>6. ServeSees(x, i)
    BY DEF Moved, i
  <1> QED
    BY <1>1, <1>2, <1>5, <1>6 DEF ServeSees, i

\* A streamer that has just asked for its lookup.
Looking ==
    /\ ~streamer.prepared /\ ~streamer.prepare_queued /\ streamer.lookup_pending /\ Resting

\* The data of a SETUP for a descriptor starts its lookup.
LEMMA LookupStarts ==
  ASSUME Shape, CapturePlaced, TransferPlaced, writer.phase = "up",
         NEW x, NEW offer, NEW start, NEW ready,
         Moved(x, offer, FALSE, "descriptor", start, ready)
  PROVE  /\ streamer' \in Streamers /\ Looking'
         /\ store'.serve.busy /\ store'.serve.key = pc.key
  <1> DEFINE i == Inputs("descriptor", start, ready)
             t == streamer
             p == Prepared(t)
             f == Fired(p)
  <1>1. pc.phase = "setup" /\ ~start
    BY DEF Moved
  <1>2. t = StreamerOff /\ pc.key \in Keys
    BY <1>1 DEF TransferPlaced, TransferKept, InTransfer
  <1>3. i.prepare /\ ~i.cancel /\ ~i.start /\ i.key = pc.key
    BY <1>1, InputFields
  <1>4. StoreCycle(x, offer) /\ ServeSees(x, i) /\ t' = StreamerStep(t, i, store, x)
    BY DEF Moved
  <1>5. pc.key # NoKey
    BY <1>2, Sizes
  <1>6. x.serve_request = pc.key /\ x.serve_cancel /\ serve_request(t, i) = pc.key
    <2> HIDE DEF i
    <2> QED
      BY <1>3, <1>4 DEF ServeSees, serve_request, serve_cancel, need_prepare
  <1>7. serve_ready(store, x) /\ store'.serve.busy /\ store'.serve.key = pc.key
    BY <1>4, <1>5, <1>6, ServeAsked
  <1>8. ~t.active /\ ~t.zlp /\ ~t.lookup_pending /\ ~t.start_deferred
    BY <1>2 DEF StreamerOff
  <1>9. t' = [f EXCEPT !.start_deferred = FALSE]
    <2> HIDE DEF i
    <2> QED
      BY <1>3, <1>4, <1>5, <1>6, <1>7, <1>8 DEF StreamerStep, answer_taken
  <1>10. /\ p \in Streamers /\ ~p.active /\ ~p.zlp /\ ~p.stall /\ ~p.start_pending
         /\ ~p.start_deferred
    BY ResetTypes, <1>2, Zenon DEF Prepared, Streamers
  <1> HIDE DEF p
  <1>11. /\ f \in Streamers /\ ~f.active /\ ~f.zlp /\ ~f.stall /\ ~f.start_pending
         /\ ~f.start_deferred /\ ~f.prepare_queued /\ f.lookup_pending /\ ~f.prepared
    BY <1>10, Zenon DEF Fired, Streamers
  <1> HIDE DEF f
  <1>12. [f EXCEPT !.start_deferred = FALSE] \in Streamers
         /\ [f EXCEPT !.start_deferred = FALSE].start_deferred = FALSE
         /\ [f EXCEPT !.start_deferred = FALSE].active = f.active
         /\ [f EXCEPT !.start_deferred = FALSE].zlp = f.zlp
         /\ [f EXCEPT !.start_deferred = FALSE].stall = f.stall
         /\ [f EXCEPT !.start_deferred = FALSE].start_pending = f.start_pending
         /\ [f EXCEPT !.start_deferred = FALSE].prepare_queued = f.prepare_queued
         /\ [f EXCEPT !.start_deferred = FALSE].lookup_pending = f.lookup_pending
         /\ [f EXCEPT !.start_deferred = FALSE].prepared = f.prepared
    BY <1>11, Zenon DEF Streamers
  <1> QED
    BY <1>7, <1>9, <1>11, <1>12 DEF Looking, Resting

\* The streamer keeps its types, and never waits for the store to take a lookup.
LEMMA StreamerNext ==
  ASSUME Shape, CapturePlaced, NothingQueued, writer.phase = "up" => TransferPlaced,
         NEW x, NEW offer, NEW token, NEW received, NEW start, NEW ready,
         Moved(x, offer, token, received, start, ready)
  PROVE  streamer' \in Streamers /\ NothingQueued'
  <1> DEFINE i == Inputs(received, start, ready)
  <1>0. StreamerOff \in Streamers /\ ~StreamerOff.prepare_queued /\ streamer \in Streamers
    BY ResetTypes DEF StreamerOff, Shape
  <1>1. CASE token
    <2>1. streamer' = StreamerOff
      BY <1>1 DEF Moved
    <2> QED
      BY <1>0, <2>1 DEF NothingQueued
  <1>2. CASE ~token /\ received = "other"
    <2>1. i.cancel
      BY <1>2, InputFields
    <2>2. streamer' = StreamerStep(streamer, i, store, x)
      BY <1>2 DEF Moved
    <2>3. streamer' = StreamerOff
      BY <2>1, <2>2 DEF StreamerStep
    <2> QED
      BY <1>0, <2>3 DEF NothingQueued
  <1>3. CASE ~token /\ received = "descriptor"
    <2>1. writer.phase = "up"
      BY <1>3 DEF Moved, connected
    <2>2. token = FALSE
      BY <1>3 DEF Moved
    <2>3. Moved(x, offer, FALSE, "descriptor", start, ready)
      BY <1>3, <2>2
    <2>4. streamer' \in Streamers /\ Looking'
      BY <2>1, <2>3, LookupStarts
    <2> QED
      BY <2>4 DEF Looking, NothingQueued
  <1>4. CASE ~token /\ received = "none"
    <2>1. Moved(x, offer, token, "none", start, ready)
      BY <1>4
    <2>2. /\ ~i.cancel /\ ~i.prepare /\ serve_request(streamer, i) = NoKey
          /\ i.start \in BOOLEAN /\ i.length \in Nat /\ i.start_position \in Nat
      BY <1>4, <2>1, NothingAsked
    <2>3. streamer' = StreamerStep(streamer, i, store, x) /\ store \in Stores
      BY <1>4 DEF Moved, Shape
    <2> HIDE DEF i
    <2>4. streamer' \in Streamers /\ streamer'.prepare_queued = streamer.prepare_queued
      BY <1>0, <2>2, <2>3, StreamerTyped
    <2> QED
      BY <2>4 DEF NothingQueued
  <1> QED
    BY <1>1, <1>2, <1>3, <1>4 DEF Moved

\* The registers of the PC keep their types.
LEMMA TransferTyped ==
  ASSUME Shape, NEW x, NEW offer, NEW token, NEW received, NEW start, NEW ready,
         Moved(x, offer, token, received, start, ready)
  PROVE  pc' \in Transfers
  <1>1. NoTransfer \in Transfers
    BY ResetTypes
  <1>2. CASE token
    <2>1. PICK key \in Keys, length \in Lengths :
             pc' = [NoTransfer EXCEPT !.phase = "setup", !.key = key, !.length = length]
      BY <1>2 DEF Moved, SetupToken
    <2>2. key \in KeyNames /\ length \in Nat
      BY ServeAssumption DEF KeyNames
    <2> QED
      BY <1>1, <2>1, <2>2, Zenon DEF Transfers
  <1>3. CASE ~token /\ ~connected
    BY <1>1, <1>3 DEF Moved
  <1>4. CASE ~token /\ connected
    <2> DEFINE last == IF tx_last(streamer) THEN "acking" ELSE pc.phase
               other == IF streamer.zlp THEN "acking" ELSE IF streamer.stall THEN "stalled" ELSE pc.phase
               ended == IF pc.bytes < MaxPacketSize0 \/ pc.acked + pc.bytes >= pc.length
                        THEN "done" ELSE "ready"
               lookup == IF received = "none" THEN pc.phase ELSE "ready"
               Phases == {"idle", "setup", "ready", "packet", "acking", "done", "stalled"}
    <2>1. /\ pc \in Transfers /\ pc.bytes + 1 \in Nat /\ pc.acked + pc.bytes \in Nat
          /\ pc.position + MaxPacketSize0 \in Nat /\ pc.phase \in Phases /\ 0 \in Nat
      BY TransferParts
    <2>2. last \in Phases /\ other \in Phases /\ ended \in Phases /\ lookup \in Phases
      BY <2>1
    <2>3. \/ pc' = pc \/ pc' = NoTransfer
          \/ pc' = [pc EXCEPT !.phase = lookup]
          \/ pc' = [pc EXCEPT !.phase = "packet", !.bytes = 0]
          \/ pc' = [pc EXCEPT !.bytes = pc.bytes + 1, !.phase = last]
          \/ pc' = [pc EXCEPT !.phase = other]
          \/ pc' = [pc EXCEPT !.phase = "ready"]
          \/ pc' = [pc EXCEPT !.acked = pc.acked + pc.bytes,
                              !.position = pc.position + MaxPacketSize0, !.phase = ended]
      BY <1>4, <2>1 DEF Moved, PcCycle
    <2> HIDE DEF last, other, ended, lookup
    <2>4. /\ pc' = [pc EXCEPT !.phase = lookup] => pc' \in Transfers
          /\ pc' = [pc EXCEPT !.phase = "packet", !.bytes = 0] => pc' \in Transfers
          /\ pc' = [pc EXCEPT !.bytes = pc.bytes + 1, !.phase = last] => pc' \in Transfers
          /\ pc' = [pc EXCEPT !.phase = other] => pc' \in Transfers
          /\ pc' = [pc EXCEPT !.phase = "ready"] => pc' \in Transfers
          /\ pc' = [pc EXCEPT !.acked = pc.acked + pc.bytes,
                              !.position = pc.position + MaxPacketSize0, !.phase = ended]
               => pc' \in Transfers
      BY <2>1, <2>2, Zenon DEF Transfers
    <2> QED
      BY <1>1, <2>1, <2>3, <2>4
  <1> QED
    BY <1>2, <1>3, <1>4

\* A device that is up, and a cycle of it without a strobe of a SETUP.
UpState ==
    /\ Shape /\ WriterPlaced /\ CapturePlaced /\ DirectoryWhole /\ QuietUnlessUp /\ ServeTrue
    /\ NothingQueued /\ TransferPlaced /\ writer.phase = "up"
Runs(x, offer, start, ready) ==
    Moved(x, offer, FALSE, "none", start, ready) /\ writer'.session = writer.session

\* The directory of a device that is up does not change.
LEMMA UpDirectory ==
  ASSUME UpState, NEW x, NEW offer, StoreCycle(x, offer)
  PROVE  /\ store'.directory = store.directory /\ store'.valid = store.valid
         /\ \A key : MatchIn(store', key) = MatchIn(store, key)
  <1>1. store'.directory = store.directory /\ store'.valid = store.valid
    BY StillCycle DEF UpState
  <1> QED
    BY <1>1, SameEntries, Zenon

\* What a lookup found stays found.
LEMMA FoundStays ==
  ASSUME UpState, NEW x, NEW offer, NEW start, NEW ready, Runs(x, offer, start, ready),
         Found, pc'.key = pc.key
  PROVE  /\ Found' /\ store'.serve.selected = store.serve.selected
         /\ store'.serve.length = store.serve.length
  <1>1. StoreCycle(x, offer) /\ ~x.serve_cancel /\ x.serve_request = NoKey
    BY NothingAsked DEF Runs, Moved, UpState
  <1>2. /\ store'.serve.key = store.serve.key /\ ~store'.serve.busy
        /\ store'.serve.selected = store.serve.selected
        /\ store'.serve.length = store.serve.length
    BY <1>1, ServeAnswers DEF UpState, Found
  <1>3. MatchIn(store', pc.key) = MatchIn(store, pc.key)
    BY <1>1, UpDirectory
  <1> QED
    BY <1>2, <1>3 DEF Found, Match

\* A lookup that is on its way is answered, or stays on its way.
LEMMA LookupGoesOn ==
  ASSUME UpState, NEW x, NEW offer, NEW start, NEW ready, Runs(x, offer, start, ready), LookupOn
  PROVE  /\ store.serve.response => Found /\ store.serve.found = store.serve.selected
         /\ ~store.serve.response =>
              store'.serve.key = pc.key /\ (store'.serve.busy \/ store'.serve.response)
  <1>1. StoreCycle(x, offer) /\ ~x.serve_cancel /\ x.serve_request = NoKey
    BY NothingAsked DEF Runs, Moved, UpState
  <1>2. /\ store'.serve.key = store.serve.key
        /\ store.serve.busy => store'.serve.busy \/ store'.serve.response
        /\ store.serve.response => ~store.serve.busy
    BY <1>1, ServeAnswers DEF UpState
  <1> QED
    BY <1>2 DEF LookupOn, Found, ServeTrue, UpState

\* A start that meets its answer, and one that waits for it.
Taking(t, i, s) == [AnswerSeen(t, i, s) EXCEPT !.start_pending = FALSE]
Deferring(t, i) == [Requested(t, i) EXCEPT !.start_pending = TRUE]

\* A byte of a packet that is taken, the last one or another, and an empty packet.
PacketOver(t) == [Unreplayed(t) EXCEPT !.active = FALSE]
PacketOn(t) == [Unreplayed(t) EXCEPT !.pos = t.pos + 1]
EmptySent(t) == [Unreplayed(t) EXCEPT !.zlp = FALSE]

\* The streamer's step in such a cycle.
LEMMA RunStep ==
  ASSUME UpState, NEW x, NEW offer, NEW start, NEW ready, Runs(x, offer, start, ready)
  PROVE  LET i == Inputs("none", start, ready)
             n == streamer'
             t == streamer
             answered == store.serve.response /\ t.lookup_pending
             starts == (start \/ t.start_deferred) /\ ~t.active
         IN  /\ t.active /\ ready =>
                  n = IF t.pos = t.chunk_end - 1 THEN PacketOver(t) ELSE PacketOn(t)
             /\ ~(t.active /\ ready) =>
                  /\ t.zlp => n = EmptySent(t)
                  /\ ~t.zlp =>
                       /\ answered /\ ~t.start_pending => n = AnswerSeen(t, i, store)
                       /\ answered /\ t.start_pending =>
                            n = Armed(Taking(t, i, store), store, store.serve.found,
                                      t.request_start, t.request_length)
                       /\ ~answered /\ starts /\ t.prepared =>
                            n = Armed(Requested(t, i), store, t.prepared_found, pc.position, pc.length)
                       /\ ~answered /\ starts /\ ~t.prepared => n = Deferring(t, i)
                       /\ ~answered /\ ~starts => n = Unreplayed(t)
  <1> DEFINE i == Inputs("none", start, ready)
  <1>1. /\ ~i.cancel /\ ~i.prepare /\ serve_request(streamer, i) = NoKey
        /\ i.start = start /\ i.ready = ready
        /\ i.start_position = pc.position /\ i.length = pc.length
    <2>1. ~i.cancel /\ ~i.prepare /\ serve_request(streamer, i) = NoKey
      BY NothingAsked DEF Runs, UpState
    <2>2. /\ i.start = start /\ i.ready = ready
          /\ i.start_position = pc.position /\ i.length = pc.length
      BY InputFields
    <2> QED
      BY <2>1, <2>2
  <1>2. streamer' = StreamerStep(streamer, i, store, x) /\ streamer \in Streamers
    BY DEF Runs, Moved, UpState, Shape
  <1> HIDE DEF i
  <1>3. LET n == streamer'
            t == streamer
            answered == store.serve.response /\ t.lookup_pending
            starts == (i.start \/ t.start_deferred) /\ ~t.active
        IN  /\ t.active /\ i.ready =>
                 n = IF t.pos = t.chunk_end - 1 THEN PacketOver(t) ELSE PacketOn(t)
            /\ ~(t.active /\ i.ready) =>
                 /\ t.zlp => n = EmptySent(t)
                 /\ ~t.zlp =>
                      /\ answered /\ ~t.start_pending => n = AnswerSeen(t, i, store)
                      /\ answered /\ t.start_pending =>
                           n = Armed(Taking(t, i, store), store, store.serve.found,
                                     t.request_start, t.request_length)
                      /\ ~answered /\ starts /\ t.prepared =>
                           n = Armed(Requested(t, i), store, t.prepared_found, i.start_position, i.length)
                      /\ ~answered /\ starts /\ ~t.prepared => n = Deferring(t, i)
                      /\ ~answered /\ ~starts => n = Unreplayed(t)
    BY <1>1, <1>2, StreamerCases DEF Taking, Deferring, PacketOver, PacketOn, EmptySent
  <1> QED
    BY <1>1, <1>3 DEF i

\* The step of a streamer that does not send.
LEMMA IdleStep ==
  ASSUME UpState, NEW x, NEW offer, NEW start, NEW ready, Runs(x, offer, start, ready),
         ~streamer.active, ~streamer.zlp
  PROVE  LET i == Inputs("none", start, ready)
             n == streamer'
             t == streamer
             answered == store.serve.response /\ t.lookup_pending
             starts == start \/ t.start_deferred
         IN  /\ answered /\ ~t.start_pending => n = AnswerSeen(t, i, store)
             /\ answered /\ t.start_pending =>
                  n = Armed(Taking(t, i, store), store, store.serve.found,
                            t.request_start, t.request_length)
             /\ ~answered /\ starts /\ t.prepared =>
                  n = Armed(Requested(t, i), store, t.prepared_found, pc.position, pc.length)
             /\ ~answered /\ starts /\ ~t.prepared => n = Deferring(t, i)
             /\ ~answered /\ ~starts => n = Unreplayed(t)
  BY RunStep

\* Between two packets a lookup is on its way or answered, and nothing is sent.
LEMMA RestingStep ==
  ASSUME UpState, NEW x, NEW offer, NEW start, NEW ready, Runs(x, offer, start, ready), ~start,
         Resting, LookupOn \/ LookupDone, pc'.key = pc.key
  PROVE  /\ Resting' /\ (LookupOn' \/ LookupDone')
         /\ LookupDone => /\ LookupDone' /\ store'.serve.selected = store.serve.selected
                          /\ store'.serve.length = store.serve.length
  <1> DEFINE i == Inputs("none", start, ready)
             a == AnswerSeen(streamer, i, store)
             u == Unreplayed(streamer)
  <1>1. streamer \in Streamers /\ store \in Stores /\ ~i.start /\ i.start \in BOOLEAN
    <2>1. i.start = start
      BY InputFields
    <2> QED
      BY <2>1 DEF UpState, Shape, Runs, Moved
  <1> HIDE DEF i
  <1>2. /\ u \in Streamers /\ SameLookup(u, streamer) /\ SamePacket(u, streamer)
        /\ ~u.start_deferred /\ u.start_pending = streamer.start_pending
    BY <1>1, UnreplayedFields
  <1>3. /\ a \in Streamers /\ SamePacket(a, streamer) /\ a.prepared /\ ~a.lookup_pending
        /\ a.prepared_found = store.serve.found
        /\ a.start_pending = streamer.start_pending /\ ~a.start_deferred
    BY <1>1, AnswerFields
  <1>4. /\ store.serve.response /\ streamer.lookup_pending => streamer' = a
        /\ ~(store.serve.response /\ streamer.lookup_pending) => streamer' = u
    BY IdleStep DEF Resting, i
  <1> HIDE DEF a, u
  <1>5. Resting'
    <2>1. streamer' = a \/ streamer' = u
      BY <1>4
    <2>2. /\ ~streamer'.start_pending /\ ~streamer'.start_deferred
          /\ streamer'.active = streamer.active /\ streamer'.zlp = streamer.zlp
          /\ streamer'.stall = streamer.stall
      BY <1>2, <1>3, <2>1 DEF Resting, SamePacket
    <2> QED
      BY <2>2 DEF Resting
  <1>6. CASE LookupDone
    <2>1. streamer' = u
      BY <1>4, <1>6 DEF LookupDone
    <2>2. /\ Found' /\ store'.serve.selected = store.serve.selected
          /\ store'.serve.length = store.serve.length
      BY <1>6, FoundStays DEF LookupDone
    <2>3. LookupDone'
      BY <1>2, <1>6, <2>1, <2>2 DEF LookupDone, SameLookup
    <2> QED
      BY <1>5, <2>2, <2>3
  <1>7. CASE LookupOn /\ store.serve.response
    <2>1. streamer' = a
      BY <1>4, <1>7 DEF LookupOn
    <2>2. Found /\ store.serve.found = store.serve.selected
      BY <1>7, LookupGoesOn
    <2>3. Found' /\ store'.serve.selected = store.serve.selected
      BY <2>2, FoundStays
    <2>4. LookupDone'
      BY <1>3, <2>1, <2>2, <2>3 DEF LookupDone
    <2>5. ~LookupDone
      BY <1>7 DEF LookupOn, LookupDone
    <2> QED
      BY <1>5, <2>4, <2>5
  <1>8. CASE LookupOn /\ ~store.serve.response
    <2>1. streamer' = u
      BY <1>4, <1>8
    <2>2. store'.serve.key = pc.key /\ (store'.serve.busy \/ store'.serve.response)
      BY <1>8, LookupGoesOn
    <2>3. LookupOn'
      BY <1>2, <1>8, <2>1, <2>2 DEF LookupOn, SameLookup
    <2>4. ~LookupDone
      BY <1>8 DEF LookupOn, LookupDone
    <2> QED
      BY <1>5, <2>3, <2>4
  <1> QED
    BY <1>6, <1>7, <1>8

\* How far a transfer may go: to what was found and what the PC asked for.
LEMMA ServedParts ==
  ASSUME UpState
  PROVE  /\ store.serve.length \in Nat /\ Served \in Nat
         /\ Served <= store.serve.length /\ Served <= pc.length
         /\ Served = store.serve.length \/ Served = pc.length
         /\ store.serve.selected /\ pc.length # 0 => Served # 0
  <1>1. store.serve.length \in Nat /\ pc.length \in Nat
    BY StoreParts, ServeParts, TransferParts DEF UpState, Shape
  <1>2. store.serve.selected => store.serve.length # 0
    BY SelectedEntry DEF UpState
  <1> QED
    BY <1>1, <1>2 DEF Served, Lesser

\* An armed packet is sent from where the PC is, ends the transfer or refuses it.
LEMMA ArmedPacket ==
  ASSUME UpState, NEW x, NEW offer, NEW start, NEW ready, Runs(x, offer, start, ready),
         Found, NEW y \in Streamers, NEW found \in BOOLEAN, found = store.serve.selected,
         y.prepared, ~y.lookup_pending, y.prepared_found = found,
         ~y.active, ~y.zlp, ~y.start_pending, ~y.start_deferred,
         streamer' = Armed(y, store, found, pc.position, pc.length),
         pc.length # 0, x.read_enable, x.offset = pc.position,
         pc'.bytes = 0, pc'.key = pc.key, pc'.length = pc.length, pc'.position = pc.position
  PROVE  PacketPlaced'
  <1> DEFINE n == streamer'
             from == pc.position
             length == Lesser(store.serve.length, pc.length)
  <1>1. /\ store \in Stores /\ from \in Nat /\ pc.length \in Nat /\ store.serve.length \in Nat
        /\ length = Served /\ length \in Nat /\ length <= store.serve.length
    BY TransferParts, ServedParts DEF UpState, Shape, Served
  <1>2. /\ Found' /\ store'.serve.selected = store.serve.selected
        /\ store'.serve.length = store.serve.length
    BY FoundStays
  <1>3. Served' = length
    BY <1>2 DEF Served
  <1> HIDE DEF from
  <1>4. /\ SameLookup(n, y) /\ SameRequest(n, y)
        /\ ~found \/ length = 0 => n.stall /\ n.active = y.active /\ n.zlp = y.zlp
        /\ found /\ length # 0 /\ from >= length =>
             ~n.stall /\ n.active = y.active /\ n.zlp
        /\ found /\ length # 0 /\ ~(from >= length) =>
             /\ ~n.stall /\ n.active /\ n.zlp = y.zlp /\ n.pos = from
             /\ n.chunk_end = Lesser(length, from + MaxPacketSize0)
    BY <1>1, ArmedFields DEF from
  <1> HIDE DEF n, length
  <1>5. /\ n.prepared /\ ~n.lookup_pending /\ n.prepared_found = store'.serve.selected
        /\ ~n.start_pending /\ ~n.start_deferred
    BY <1>2, <1>4 DEF SameLookup, SameRequest
  <1>6. LookupDone'
    BY <1>2, <1>5 DEF LookupDone, n
  <1>7. CASE ~found
    <2>1. Refusing' /\ ~n.active
      BY <1>2, <1>4, <1>6, <1>7 DEF Refusing, n
    <2> QED
      BY <2>1 DEF PacketPlaced, n
  <1>8. CASE found /\ from >= length
    <2>1. length # 0
      BY <1>1, <1>8, ServedParts
    <2>2. ~n.stall /\ n.zlp /\ ~n.active
      BY <1>4, <1>8, <2>1
    <2>3. Ending' /\ ~n.active
      BY <1>1, <1>2, <1>3, <1>5, <1>6, <1>8, <2>2 DEF Ending, n, from
    <2> QED
      BY <2>3 DEF PacketPlaced, n
  <1>9. CASE found /\ ~(from >= length)
    <2>1. length # 0
      BY <1>1, <1>9, ServedParts
    <2>2. /\ ~n.stall /\ n.active /\ ~n.zlp /\ n.pos = from
          /\ n.chunk_end = Lesser(length, from + MaxPacketSize0)
      BY <1>4, <1>9, <2>1
    <2>3. from < n.chunk_end
      BY <1>1, <1>9, <2>2, Sizes DEF Lesser, from
    <2>4. StoreCycle(x, offer) /\ writer'.session = writer.session
      BY DEF Runs, Moved
    <2>5. x.offset < store.serve.length
      BY <1>1, <1>9 DEF from
    <2>6. store'.owner_q /\ store'.read_q = <<store.serve.key, writer.session, x.offset>>
      BY <1>9, <2>4, <2>5, ReadsRight DEF UpState, Found
    <2>7. store'.read_q = <<pc'.key, writer'.session, n.pos>>
      BY <2>2, <2>4, <2>6 DEF Found, from
    <2>8. Sending'
      <3>1. n.pos = pc'.position + pc'.bytes
        BY <1>1, <2>2 DEF from
      <3>2. n.chunk_end = Lesser(Served', pc'.position + MaxPacketSize0)
        BY <1>3, <2>2 DEF from
      <3> QED
        BY <1>2, <1>5, <1>6, <1>9, <2>2, <2>3, <2>6, <2>7, <3>1, <3>2 DEF Sending, n
    <2> QED
      BY <2>8 DEF PacketPlaced
  <1> QED
    BY <1>7, <1>8, <1>9

\* The port is read at the start of a packet from where the PC is.
LEMMA StartReads ==
  ASSUME UpState, NEW x, NEW offer, NEW start, NEW ready, Runs(x, offer, start, ready),
         ~streamer.active, start \/ streamer.start_pending \/ streamer.start_deferred
  PROVE  x.read_enable /\ x.offset = pc.position
  <1> DEFINE i == Inputs("none", start, ready)
  <1>1. i.start = start /\ i.start_position = pc.position
    BY InputFields
  <1>2. ServeSees(x, i)
    BY DEF Runs, Moved
  <1> HIDE DEF i
  <1> QED
    BY <1>1, <1>2 DEF ServeSees, serve_read_enable, serve_offset

\* A start with an answered lookup arms a packet.
LEMMA StartPrepared ==
  ASSUME UpState, NEW x, NEW offer, NEW start, NEW ready, Runs(x, offer, start, ready),
         LookupDone, ~streamer.active, ~streamer.zlp, ~streamer.start_pending,
         start \/ streamer.start_deferred, pc.length # 0,
         pc'.bytes = 0, pc'.key = pc.key, pc'.length = pc.length, pc'.position = pc.position
  PROVE  PacketPlaced'
  <1> DEFINE i == Inputs("none", start, ready)
             y == Requested(streamer, i)
             found == streamer.prepared_found
  <1>1. streamer' = Armed(y, store, found, pc.position, pc.length)
    BY IdleStep DEF LookupDone
  <1>2. x.read_enable /\ x.offset = pc.position
    BY StartReads
  <1>3. streamer \in Streamers /\ found \in BOOLEAN /\ pc.length \in Nat /\ pc.position \in Nat
    BY StreamerParts, TransferParts DEF UpState, Shape
  <1>4. i.length \in Nat /\ i.start_position \in Nat
    BY <1>3, InputFields
  <1> HIDE DEF i
  <1>5. /\ y \in Streamers /\ SameLookup(y, streamer) /\ y.active = streamer.active
        /\ y.zlp = streamer.zlp /\ y.start_pending = streamer.start_pending
        /\ ~y.start_deferred
    BY <1>3, <1>4, RequestedFields
  <1> HIDE DEF y
  <1>6. /\ y.prepared /\ ~y.lookup_pending /\ y.prepared_found = found
        /\ ~y.active /\ ~y.zlp /\ ~y.start_pending
    BY <1>5 DEF SameLookup, LookupDone
  <1>7. found = store.serve.selected /\ Found
    BY DEF LookupDone
  <1> HIDE DEF found
  <1> QED
    BY <1>1, <1>2, <1>3, <1>5, <1>6, <1>7, ArmedPacket

\* A start of the PC: whichever cycle it meets the lookup in, a packet follows.
LEMMA ReadyStarts ==
  ASSUME UpState, NEW x, NEW offer, NEW start, NEW ready, Runs(x, offer, start, ready),
         start, Resting, LookupOn \/ LookupDone, pc.length # 0,
         pc'.bytes = 0, pc'.key = pc.key, pc'.length = pc.length, pc'.position = pc.position
  PROVE  PacketPlaced'
  <1> DEFINE i == Inputs("none", start, ready)
             a == AnswerSeen(streamer, i, store)
             q == Deferring(streamer, i)
             r == Requested(streamer, i)
  <1>1. streamer \in Streamers /\ store \in Stores /\ pc.length \in Nat /\ pc.position \in Nat
    BY TransferParts DEF UpState, Shape
  <1>2. i.start /\ i.length = pc.length /\ i.start_position = pc.position
    BY DEF Inputs
  <1>3. start \in BOOLEAN
    BY DEF Runs, Moved
  <1>4. CASE LookupDone
    BY <1>4, StartPrepared DEF Resting
  <1>5. CASE LookupOn /\ store.serve.response
    <2>1. streamer' = a
      BY <1>5, IdleStep DEF LookupOn, Resting
    <2> HIDE DEF i
    <2>2. /\ SamePacket(a, streamer) /\ a.prepared /\ ~a.lookup_pending
          /\ a.prepared_found = store.serve.found
          /\ a.start_pending = streamer.start_pending
          /\ (a.start_deferred <=> i.start /\ ~streamer.start_pending)
      BY <1>1, <1>2, <1>3, AnswerFields
    <2> HIDE DEF a
    <2>3. Found /\ store.serve.found = store.serve.selected
      BY <1>5, LookupGoesOn
    <2>4. Found' /\ store'.serve.selected = store.serve.selected
      BY <2>3, FoundStays
    <2>5. LookupDone'
      BY <2>1, <2>2, <2>3, <2>4 DEF LookupDone
    <2>6. /\ ~streamer'.active /\ ~streamer'.zlp /\ ~streamer'.stall
          /\ ~streamer'.start_pending /\ streamer'.start_deferred
      BY <1>2, <2>1, <2>2 DEF Resting, SamePacket
    <2> QED
      BY <2>5, <2>6 DEF PacketPlaced, Replaying
  <1>6. CASE LookupOn /\ ~store.serve.response
    <2>1. streamer' = q
      BY <1>6, IdleStep DEF LookupOn, Resting
    <2> HIDE DEF i
    <2>2. /\ r \in Streamers /\ SameLookup(r, streamer)
          /\ r.active = streamer.active /\ r.zlp = streamer.zlp /\ ~r.stall
          /\ ~r.start_deferred
          /\ r.request_length = i.length /\ r.request_start = i.start_position
      BY <1>1, <1>2, RequestedFields
    <2>3. q = [r EXCEPT !.start_pending = TRUE]
      BY DEF Deferring
    <2> HIDE DEF r, q
    <2>4. /\ SameLookup(q, r) /\ SamePacket(q, r) /\ q.start_pending
          /\ q.start_deferred = r.start_deferred
          /\ q.request_length = r.request_length /\ q.request_start = r.request_start
      BY <2>2, <2>3, SentFields
    <2>5. store'.serve.key = pc.key /\ (store'.serve.busy \/ store'.serve.response)
      BY <1>6, LookupGoesOn
    <2>6. LookupOn'
      BY <1>6, <2>1, <2>2, <2>4, <2>5 DEF LookupOn, SameLookup
    <2>7. /\ ~streamer'.active /\ ~streamer'.zlp /\ ~streamer'.stall
          /\ streamer'.start_pending /\ ~streamer'.start_deferred
      BY <2>1, <2>2, <2>4 DEF Resting, SamePacket
    <2>8. streamer'.request_start = pc'.position /\ streamer'.request_length = pc'.length
      BY <1>2, <2>1, <2>2, <2>4
    <2> QED
      BY <2>6, <2>7, <2>8 DEF PacketPlaced, Waiting
  <1> QED
    BY <1>4, <1>5, <1>6

\* A transfer that goes on keeps its request.
LEMMA KeptStays ==
  ASSUME UpState, NEW x, NEW offer, StoreCycle(x, offer), InTransfer,
         pc'.key = pc.key, pc'.length = pc.length, pc'.acked = pc.acked,
         pc'.position = pc.position
  PROVE  TransferKept'
  <1>1. store'.directory = store.directory /\ MatchIn(store', pc.key) = MatchIn(store, pc.key)
    BY UpDirectory
  <1> QED
    BY <1>1 DEF UpState, TransferPlaced, TransferKept, Match

\* The streamer's step while it sends a packet.
LEMMA SendingStep ==
  ASSUME UpState, NEW x, NEW offer, NEW start, NEW ready, Runs(x, offer, start, ready),
         Sending, ~start
  PROVE  LET n == streamer'
             t == streamer
         IN  /\ SameLookup(n, t) /\ ~n.start_pending /\ ~n.start_deferred /\ ~n.zlp /\ ~n.stall
             /\ ready /\ t.pos = t.chunk_end - 1 => ~n.active
             /\ ready /\ t.pos # t.chunk_end - 1 =>
                  n.active /\ n.pos = t.pos + 1 /\ n.chunk_end = t.chunk_end
             /\ ~ready => n.active /\ n.pos = t.pos /\ n.chunk_end = t.chunk_end
             /\ x.read_enable
             /\ x.offset = IF ready /\ t.pos # t.chunk_end - 1 THEN t.pos + 1 ELSE t.pos
  <1> DEFINE i == Inputs("none", start, ready)
             t == streamer
             u == Unreplayed(t)
             off == PacketOver(t)
             next == PacketOn(t)
             n == streamer'
  <1>1. /\ ~i.cancel /\ ~i.prepare /\ serve_request(t, i) = NoKey
    BY NothingAsked DEF Runs, UpState
  <1>2. i.start = start /\ i.ready = ready
    BY InputFields
  <1>3. n = StreamerStep(t, i, store, x) /\ t \in Streamers /\ ServeSees(x, i) /\ start \in BOOLEAN
    BY DEF Runs, Moved, UpState, Shape
  <1>4. /\ t.active /\ ~t.zlp /\ ~t.stall /\ ~t.lookup_pending /\ ~t.start_pending
        /\ ~t.start_deferred
    BY DEF Sending, LookupDone
  <1> HIDE DEF i
  <1>5. /\ x.read_enable
        /\ x.offset = IF ready /\ t.pos # t.chunk_end - 1 THEN t.pos + 1 ELSE t.pos
    BY <1>2, <1>3, <1>4 DEF ServeSees, serve_read_enable, serve_offset
  <1>6. /\ ready => n = IF t.pos = t.chunk_end - 1 THEN off ELSE next
        /\ ~ready => n = u
    <2>1. ~(store.serve.response /\ t.lookup_pending) /\ ~((start \/ t.start_deferred) /\ ~t.active)
      BY <1>4
    <2> QED
      BY <1>4, <2>1, RunStep
  <1>7. /\ u \in Streamers /\ SameLookup(u, t) /\ SamePacket(u, t) /\ ~u.start_deferred
        /\ u.start_pending = t.start_pending
    BY <1>3, UnreplayedFields
  <1>8. t.pos + 1 \in Nat
    BY <1>3, StreamerParts
  <1> DEFINE p == t.pos + 1
  <1>9. /\ SameLookup(off, u) /\ SameRequest(off, u) /\ ~off.active /\ off.zlp = u.zlp
        /\ off.stall = u.stall
    <2>1. off = [u EXCEPT !.active = FALSE]
      BY DEF PacketOver
    <2> HIDE DEF off, u
    <2> QED
      BY <1>7, <2>1, SentFields
  <1>10. /\ SameLookup(next, u) /\ SameRequest(next, u) /\ next.active = u.active
         /\ next.zlp = u.zlp /\ next.stall = u.stall /\ next.pos = p
         /\ next.chunk_end = u.chunk_end
    <2>1. next = [u EXCEPT !.pos = p]
      BY DEF PacketOn
    <2> HIDE DEF next, u, p
    <2> QED
      BY <1>7, <1>8, <2>1, SentFields DEF p
  <1> HIDE DEF off, next, u, n
  <1>11. n = off \/ n = next \/ n = u
    BY <1>6
  <1>12. SameLookup(n, t) /\ ~n.start_pending /\ ~n.start_deferred /\ ~n.zlp /\ ~n.stall
    BY <1>4, <1>7, <1>9, <1>10, <1>11 DEF SameLookup, SameRequest, SamePacket
  <1>13. /\ ready /\ t.pos = t.chunk_end - 1 => ~n.active
         /\ ready /\ t.pos # t.chunk_end - 1 =>
              n.active /\ n.pos = t.pos + 1 /\ n.chunk_end = t.chunk_end
         /\ ~ready => n.active /\ n.pos = t.pos /\ n.chunk_end = t.chunk_end
    BY <1>4, <1>6, <1>7, <1>9, <1>10 DEF SamePacket
  <1> QED
    BY <1>5, <1>12, <1>13 DEF n

\* A byte of a packet is taken, or waits; the last one ends the packet.
LEMMA PacketSends ==
  ASSUME UpState, NEW x, NEW offer, NEW start, NEW ready, Runs(x, offer, start, ready),
         pc.phase = "packet", Sending
  PROVE  TransferPlaced'
  <1> DEFINE last == streamer.pos = streamer.chunk_end - 1
  <1>1. ~start /\ ready \in BOOLEAN /\ PcCycle("none", start, ready) /\ StoreCycle(x, offer)
    BY DEF Runs, Moved, connected, UpState
  <1>2. streamer.active /\ ~streamer.zlp /\ ~streamer.stall
    BY DEF Sending
  <1>3. pc' = IF ready THEN [pc EXCEPT !.bytes = @ + 1, !.phase = IF last THEN "acking" ELSE @]
              ELSE [pc EXCEPT !.phase = @]
    BY <1>1, <1>2 DEF PcCycle, tx_last
  <1>4. pc \in Transfers /\ streamer \in Streamers
    BY DEF UpState, Shape
  <1>5. /\ pc'.key = pc.key /\ pc'.length = pc.length /\ pc'.acked = pc.acked
        /\ pc'.position = pc.position
        /\ pc'.bytes = IF ready THEN pc.bytes + 1 ELSE pc.bytes
        /\ pc'.phase = IF ready /\ last THEN "acking" ELSE "packet"
    <2> HIDE DEF last
    <2> QED
      BY <1>3, <1>4 DEF Transfers
  <1>6. TransferKept'
    BY <1>1, <1>5, KeptStays DEF InTransfer
  <1>7. /\ Found' /\ store'.serve.selected = store.serve.selected
        /\ store'.serve.length = store.serve.length
    BY <1>5, FoundStays DEF Sending, LookupDone
  <1>8. Served' = Served
    BY <1>5, <1>7 DEF Served
  <1>9. LET n == streamer'
            t == streamer
        IN  /\ SameLookup(n, t) /\ ~n.start_pending /\ ~n.start_deferred /\ ~n.zlp /\ ~n.stall
            /\ ready /\ t.pos = t.chunk_end - 1 => ~n.active
            /\ ready /\ t.pos # t.chunk_end - 1 =>
                 n.active /\ n.pos = t.pos + 1 /\ n.chunk_end = t.chunk_end
            /\ ~ready => n.active /\ n.pos = t.pos /\ n.chunk_end = t.chunk_end
            /\ x.read_enable
            /\ x.offset = IF ready /\ t.pos # t.chunk_end - 1 THEN t.pos + 1 ELSE t.pos
    BY <1>1, SendingStep
  <1>10. LookupDone' /\ store'.serve.selected
    BY <1>7, <1>9 DEF LookupDone, Sending, SameLookup
  <1>11. /\ streamer.pos = pc.position + pc.bytes /\ streamer.pos < streamer.chunk_end
         /\ streamer.chunk_end = Lesser(Served, pc.position + MaxPacketSize0)
         /\ streamer.chunk_end <= Served /\ Served <= store.serve.length
         /\ streamer.pos \in Nat /\ streamer.chunk_end \in Nat /\ store.serve.length \in Nat
         /\ pc.position \in Nat /\ pc.bytes \in Nat /\ pc.acked = pc.position /\ Served \in Nat
    <2>1. /\ streamer.pos = pc.position + pc.bytes /\ streamer.pos < streamer.chunk_end
          /\ streamer.chunk_end = Lesser(Served, pc.position + MaxPacketSize0)
      BY DEF Sending
    <2>2. /\ streamer.pos \in Nat /\ streamer.chunk_end \in Nat /\ store.serve.length \in Nat
          /\ pc.position \in Nat /\ pc.bytes \in Nat /\ Served \in Nat
          /\ Served <= store.serve.length
      BY <1>4, StreamerParts, TransferParts, ServedParts DEF UpState
    <2>3. pc.acked = pc.position
      BY DEF UpState, TransferPlaced, TransferKept, InTransfer
    <2> QED
      BY <2>1, <2>2, <2>3, Sizes DEF Lesser
  <1>12. CASE ready /\ last
    <2>1. pc'.acked + pc'.bytes = Lesser(Served', pc'.acked + MaxPacketSize0)
      BY <1>5, <1>8, <1>11, <1>12
    <2>2. Resting'
      BY <1>9, <1>12 DEF Resting
    <2>3. AckPlaced'
      BY <1>10, <2>1, <2>2 DEF AckPlaced
    <2> QED
      BY <1>5, <1>6, <1>12, <2>3 DEF TransferPlaced, ReadyPlaced, PacketPlaced, EndPlaced
  <1>13. CASE ~(ready /\ last)
    <2>1. x.offset = streamer'.pos /\ streamer'.chunk_end = streamer.chunk_end /\ streamer'.active
          /\ streamer'.pos = pc'.position + pc'.bytes /\ streamer'.pos < streamer'.chunk_end
          /\ streamer'.pos \in Nat
      <3>1. CASE ready /\ ~last
        <4>1. streamer.pos # streamer.chunk_end - 1
          BY <3>1
        <4>2. pc'.bytes = pc.bytes + 1 /\ pc'.position = pc.position
          BY <1>5, <3>1
        <4>3. /\ streamer'.active /\ streamer'.pos = streamer.pos + 1
              /\ streamer'.chunk_end = streamer.chunk_end /\ x.offset = streamer.pos + 1
          BY <1>9, <3>1, <4>1
        <4> QED
          BY <1>11, <4>1, <4>2, <4>3
      <3>2. CASE ~ready
        <4>1. pc'.bytes = pc.bytes /\ pc'.position = pc.position
          BY <1>5, <3>2
        <4>2. /\ streamer'.active /\ streamer'.pos = streamer.pos
              /\ streamer'.chunk_end = streamer.chunk_end /\ x.offset = streamer.pos
          BY <1>9, <3>2
        <4> QED
          BY <1>11, <4>1, <4>2
      <3> QED
        BY <1>13, <3>1, <3>2
    <2>2. x.offset < store.serve.length
      BY <1>11, <2>1
    <2>3. store'.owner_q /\ store'.read_q = <<store.serve.key, writer.session, x.offset>>
      BY <1>1, <1>9, <2>2, ReadsRight DEF UpState, Sending, LookupDone, Found
    <2>4. store'.read_q = <<pc'.key, writer'.session, streamer'.pos>>
      BY <1>5, <2>1, <2>3 DEF Runs, Sending, LookupDone, Found
    <2>5. streamer'.chunk_end = Lesser(Served', pc'.position + MaxPacketSize0)
      BY <1>5, <1>8, <1>11, <2>1
    <2>6. Sending'
      BY <1>9, <1>10, <2>1, <2>3, <2>4, <2>5 DEF Sending
    <2> QED
      BY <1>5, <1>6, <1>13, <2>6 DEF TransferPlaced, ReadyPlaced, PacketPlaced, AckPlaced, EndPlaced
  <1> QED
    BY <1>12, <1>13

\* A start that waits for the lookup is served when the answer comes.
LEMMA StartWaits ==
  ASSUME UpState, NEW x, NEW offer, NEW start, NEW ready, Runs(x, offer, start, ready),
         pc.phase = "packet", ~streamer.active, Waiting, pc' = pc, pc.bytes = 0
  PROVE  PacketPlaced'
  <1> DEFINE i == Inputs("none", start, ready)
             t == streamer
             u == Unreplayed(t)
             a == AnswerSeen(t, i, store)
             y == Taking(t, i, store)
  <1>1. t \in Streamers /\ store \in Stores /\ start \in BOOLEAN /\ ~start
    BY DEF UpState, Shape, Runs, Moved
  <1>2. i.start = start
    BY InputFields
  <1>3. /\ LookupOn /\ ~t.zlp /\ ~t.stall /\ t.start_pending /\ ~t.start_deferred
        /\ t.request_start = pc.position /\ t.request_length = pc.length
    BY DEF Waiting
  <1>4. /\ store.serve.response =>
             streamer' = Armed(y, store, store.serve.found, pc.position, pc.length)
        /\ ~store.serve.response => streamer' = u
    BY <1>1, <1>3, IdleStep DEF LookupOn
  <1> HIDE DEF i
  <1>5. CASE store.serve.response
    <2>1. Found /\ store.serve.found = store.serve.selected
      BY <1>3, <1>5, LookupGoesOn
    <2>2. /\ a \in Streamers /\ SamePacket(a, t) /\ a.prepared /\ ~a.lookup_pending
          /\ a.prepared_found = store.serve.found
          /\ (a.start_deferred <=> i.start /\ ~t.start_pending)
      BY <1>1, <1>2, AnswerFields
    <2>3. y = [a EXCEPT !.start_pending = FALSE]
      BY DEF Taking
    <2> HIDE DEF a, y
    <2>4. /\ y \in Streamers /\ SameLookup(y, a) /\ SamePacket(y, a)
          /\ ~y.start_pending /\ y.start_deferred = a.start_deferred
      BY <2>2, <2>3, SentFields
    <2> DEFINE found == store.serve.found
    <2>5. /\ y.prepared /\ ~y.lookup_pending /\ y.prepared_found = found
          /\ ~y.active /\ ~y.zlp /\ ~y.start_deferred
      BY <1>1, <1>2, <1>3, <2>2, <2>4 DEF SameLookup, SamePacket
    <2>6. x.read_enable /\ x.offset = pc.position
      BY <1>3, StartReads
    <2>7. found \in BOOLEAN /\ pc.length # 0
      BY <1>1, StoreParts, ServeParts DEF UpState, TransferPlaced, TransferKept, InTransfer
    <2>8. streamer' = Armed(y, store, found, pc.position, pc.length)
      BY <1>4, <1>5
    <2>9. found = store.serve.selected
      BY <2>1
    <2> HIDE DEF found
    <2> QED
      BY <2>1, <2>4, <2>5, <2>6, <2>7, <2>8, <2>9, ArmedPacket
  <1>6. CASE ~store.serve.response
    <2>1. /\ SameLookup(u, t) /\ SamePacket(u, t) /\ ~u.start_deferred
          /\ u.start_pending = t.start_pending
          /\ u.request_length = t.request_length /\ u.request_start = t.request_start
      BY <1>1, UnreplayedFields
    <2> HIDE DEF u
    <2>2. streamer' = u
      BY <1>4, <1>6
    <2>3. store'.serve.key = pc.key /\ (store'.serve.busy \/ store'.serve.response)
      BY <1>3, <1>6, LookupGoesOn
    <2>4. LookupOn'
      BY <1>3, <2>1, <2>2, <2>3 DEF LookupOn, SameLookup
    <2>5. ~streamer'.active /\ Waiting'
      BY <1>3, <2>1, <2>2, <2>4 DEF Waiting, SamePacket
    <2> QED
      BY <2>5 DEF PacketPlaced
  <1> QED
    BY <1>5, <1>6

\* The packet of no bytes that ends a descriptor of whole packets.
LEMMA PacketEnds ==
  ASSUME UpState, NEW x, NEW offer, NEW start, NEW ready, Runs(x, offer, start, ready),
         pc.phase = "packet", ~streamer.active, Ending, pc.bytes = 0,
         pc' = [pc EXCEPT !.phase = "acking"]
  PROVE  TransferPlaced'
  <1> DEFINE t == streamer
             u == Unreplayed(t)
             n == EmptySent(t)
  <1>1. t \in Streamers /\ pc \in Transfers
    BY DEF UpState, Shape
  <1>2. /\ pc'.key = pc.key /\ pc'.length = pc.length /\ pc'.acked = pc.acked
        /\ pc'.position = pc.position /\ pc'.bytes = 0 /\ pc'.phase = "acking"
    BY <1>1 DEF Transfers
  <1>3. /\ LookupDone /\ t.zlp /\ ~t.stall /\ ~t.start_pending /\ store.serve.selected
        /\ Served <= pc.position
    BY DEF Ending
  <1>4. streamer' = n
    BY <1>3, RunStep
  <1>5. /\ u \in Streamers /\ SameLookup(u, t) /\ SamePacket(u, t) /\ ~u.start_deferred
        /\ u.start_pending = t.start_pending
    BY <1>1, UnreplayedFields
  <1>6. n = [u EXCEPT !.zlp = FALSE]
    BY DEF EmptySent
  <1> HIDE DEF u, n
  <1>7. /\ SameLookup(n, u) /\ SameRequest(n, u) /\ n.active = u.active /\ ~n.zlp
        /\ n.stall = u.stall
    BY <1>5, <1>6, SentFields
  <1>8. Resting'
    BY <1>3, <1>4, <1>5, <1>7 DEF Resting, SameLookup, SameRequest, SamePacket
  <1>9. /\ Found' /\ store'.serve.selected = store.serve.selected
        /\ store'.serve.length = store.serve.length
    BY <1>2, <1>3, FoundStays DEF LookupDone
  <1>10. LookupDone' /\ store'.serve.selected
    BY <1>3, <1>4, <1>5, <1>7, <1>9 DEF LookupDone, SameLookup
  <1>11. Served' = Served
    BY <1>2, <1>9 DEF Served
  <1>12. StoreCycle(x, offer)
    BY DEF Runs, Moved
  <1>13. TransferKept'
    BY <1>2, <1>12, KeptStays DEF InTransfer
  <1>14. pc.acked + 0 = Lesser(Served, pc.acked + MaxPacketSize0)
    <2>1. /\ pc.acked = pc.position /\ pc.acked < pc.length /\ pc.length # 0
          /\ pc.acked # 0 => \E j \in Match(pc.key) : pc.acked <= store.directory[j].length
      BY DEF UpState, TransferPlaced, TransferKept, InTransfer
    <2>2. /\ Served \in Nat /\ store.serve.length \in Nat /\ pc.acked \in Nat /\ pc.length \in Nat
          /\ Served = store.serve.length \/ Served = pc.length
          /\ Served # 0
      BY <1>3, <2>1, ServedParts, TransferParts DEF UpState
    <2>3. pc.acked # 0
      BY <1>3, <2>1, <2>2
    <2>4. \A j \in Match(pc.key) : store.directory[j].length = store.serve.length
      BY <1>3, SelectedEntry DEF UpState, LookupDone, Found
    <2>5. pc.acked <= store.serve.length
      BY <2>1, <2>3, <2>4
    <2> QED
      BY <1>3, <2>1, <2>2, <2>5, Sizes DEF Lesser
  <1>15. AckPlaced'
    BY <1>2, <1>8, <1>10, <1>11, <1>14 DEF AckPlaced
  <1> QED
    BY <1>2, <1>13, <1>15 DEF TransferPlaced, ReadyPlaced, PacketPlaced, EndPlaced

\* A packet that is not sent yet.
LEMMA PacketWaits ==
  ASSUME UpState, NEW x, NEW offer, NEW start, NEW ready, Runs(x, offer, start, ready),
         pc.phase = "packet", ~Sending
  PROVE  TransferPlaced'
  <1>1. pc.bytes = 0 /\ ~streamer.active /\ (Waiting \/ Replaying \/ Ending \/ Refusing)
    BY DEF UpState, TransferPlaced, PacketPlaced
  <1>2. ~start /\ PcCycle("none", start, ready) /\ StoreCycle(x, offer)
    BY DEF Runs, Moved, connected, UpState
  <1>3. pc' = [pc EXCEPT !.phase = IF streamer.zlp THEN "acking"
                                   ELSE IF streamer.stall THEN "stalled" ELSE @]
    BY <1>1, <1>2 DEF PcCycle
  <1>4. pc \in Transfers /\ pc.length # 0
    BY DEF UpState, Shape, TransferPlaced, TransferKept, InTransfer
  <1>5. CASE Waiting \/ Replaying
    <2>1. ~streamer.zlp /\ ~streamer.stall
      BY <1>5 DEF Waiting, Replaying
    <2>2. pc' = pc
      BY <1>3, <1>4, <2>1 DEF Transfers
    <2>3. PacketPlaced'
      <3>1. CASE Waiting
        BY <1>1, <2>2, <3>1, StartWaits
      <3>2. CASE Replaying
        BY <1>1, <1>4, <2>1, <2>2, <3>2, StartPrepared DEF Replaying
      <3> QED
        BY <1>5, <3>1, <3>2
    <2>4. TransferKept'
      BY <1>2, <2>2, KeptStays DEF InTransfer
    <2> QED
      BY <2>2, <2>3, <2>4 DEF TransferPlaced, ReadyPlaced, AckPlaced, EndPlaced
  <1>6. CASE Ending
    <2>1. pc' = [pc EXCEPT !.phase = "acking"]
      BY <1>3, <1>6 DEF Ending
    <2> QED
      BY <1>1, <1>6, <2>1, PacketEnds
  <1>7. CASE Refusing
    <2>1. pc' = [pc EXCEPT !.phase = "stalled"]
      BY <1>3, <1>7 DEF Refusing
    <2>2. pc'.phase = "stalled" /\ pc'.key = pc.key
      BY <1>4, <2>1 DEF Transfers
    <2>3. Match(pc.key) = {}
      BY <1>7 DEF Refusing, LookupDone, Found
    <2>4. MatchIn(store', pc.key) = MatchIn(store, pc.key)
      BY <1>2, UpDirectory
    <2> QED
      BY <2>2, <2>3, <2>4 DEF TransferPlaced, TransferKept, InTransfer, ReadyPlaced, PacketPlaced,
                              AckPlaced, EndPlaced, Match
  <1> QED
    BY <1>1, <1>5, <1>6, <1>7

\* A packet is asked for, or not yet.
LEMMA ReadyStep ==
  ASSUME UpState, NEW x, NEW offer, NEW start, NEW ready, Runs(x, offer, start, ready),
         pc.phase = "ready"
  PROVE  TransferPlaced'
  <1>1. PcCycle("none", start, ready) /\ StoreCycle(x, offer) /\ start \in BOOLEAN
    BY DEF Runs, Moved, connected, UpState
  <1>2. pc' = IF start THEN [pc EXCEPT !.phase = "packet", !.bytes = 0] ELSE pc
    BY <1>1 DEF PcCycle
  <1>3. /\ pc \in Transfers /\ pc.length # 0 /\ Resting /\ (LookupOn \/ LookupDone)
    BY DEF UpState, Shape, TransferPlaced, TransferKept, InTransfer, ReadyPlaced
  <1>4. CASE start
    <2>1. /\ pc'.phase = "packet" /\ pc'.bytes = 0 /\ pc'.key = pc.key /\ pc'.length = pc.length
          /\ pc'.acked = pc.acked /\ pc'.position = pc.position
      BY <1>2, <1>3, <1>4 DEF Transfers
    <2>2. PacketPlaced'
      BY <1>3, <1>4, <2>1, ReadyStarts
    <2>3. TransferKept'
      BY <1>1, <2>1, KeptStays DEF InTransfer
    <2> QED
      BY <2>1, <2>2, <2>3 DEF TransferPlaced, ReadyPlaced, AckPlaced, EndPlaced
  <1>5. CASE ~start
    <2>1. pc' = pc
      BY <1>2, <1>5
    <2>2. Resting' /\ (LookupOn' \/ LookupDone')
      BY <1>3, <1>5, <2>1, RestingStep
    <2>3. TransferKept'
      BY <1>1, <2>1, KeptStays DEF InTransfer
    <2> QED
      BY <2>1, <2>2, <2>3 DEF TransferPlaced, ReadyPlaced, PacketPlaced, AckPlaced, EndPlaced
  <1> QED
    BY <1>1, <1>4, <1>5

\* A packet is acknowledged, missed, or neither yet.
LEMMA AckStep ==
  ASSUME UpState, NEW x, NEW offer, NEW start, NEW ready, Runs(x, offer, start, ready),
         pc.phase = "acking"
  PROVE  TransferPlaced'
  <1> DEFINE total == pc.acked + pc.bytes
             over == pc.bytes < MaxPacketSize0 \/ total >= pc.length
  <1>1. PcCycle("none", start, ready) /\ StoreCycle(x, offer) /\ ~start
    BY DEF Runs, Moved, connected, UpState
  <1>2. \/ pc' = pc
        \/ pc' = [pc EXCEPT !.phase = "ready"]
        \/ pc' = [pc EXCEPT !.acked = total, !.position = @ + MaxPacketSize0,
                            !.phase = IF over THEN "done" ELSE "ready"]
    BY <1>1 DEF PcCycle
  <1>3. /\ pc \in Transfers /\ pc.length # 0 /\ pc.acked = pc.position /\ pc.acked < pc.length
        /\ pc.key \in Keys
        /\ LookupDone /\ store.serve.selected /\ Resting
        /\ total = Lesser(Served, pc.acked + MaxPacketSize0)
    BY DEF UpState, Shape, TransferPlaced, TransferKept, InTransfer, AckPlaced
  <1>4. /\ pc'.key = pc.key /\ pc'.length = pc.length /\ pc'.bytes = pc.bytes
        /\ \/ pc'.phase \in {"acking", "ready"} /\ pc'.acked = pc.acked
              /\ pc'.position = pc.position
           \/ /\ pc'.phase = IF over THEN "done" ELSE "ready"
              /\ pc'.acked = total /\ pc'.position = pc.position + MaxPacketSize0
    <2> HIDE DEF total, over
    <2> QED
      BY <1>2, <1>3 DEF Transfers
  <1>5. /\ Resting' /\ LookupDone' /\ store'.serve.selected = store.serve.selected
        /\ store'.serve.length = store.serve.length
    <2>1. pc'.key = pc.key
      BY <1>4
    <2>2. LookupDone /\ Resting
      BY <1>3
    <2> QED
      BY <1>1, <2>1, <2>2, RestingStep
  <1>6. Served' = Served
    BY <1>4, <1>5 DEF Served
  <1>7. /\ Served \in Nat /\ store.serve.length \in Nat /\ pc.length \in Nat /\ pc.acked \in Nat
        /\ pc.bytes \in Nat /\ total \in Nat
        /\ Served <= store.serve.length /\ Served <= pc.length
        /\ Served = Lesser(pc.length, store.serve.length)
    <2>1. /\ Served \in Nat /\ store.serve.length \in Nat /\ pc.length \in Nat /\ pc.acked \in Nat
          /\ pc.bytes \in Nat /\ total \in Nat
          /\ Served <= store.serve.length /\ Served <= pc.length
          /\ Served = store.serve.length \/ Served = pc.length
      BY ServedParts, TransferParts DEF UpState
    <2> QED
      BY <2>1 DEF Lesser
  <1>8. /\ store'.directory = store.directory /\ MatchIn(store', pc.key) = MatchIn(store, pc.key)
    BY <1>1, UpDirectory
  <1>9. /\ \E j \in Match(pc.key) : TRUE
        /\ \A j \in Match(pc.key) : store.directory[j].length = store.serve.length
    BY <1>3, SelectedEntry DEF UpState, LookupDone, Found
  <1>10. CASE pc'.phase \in {"acking", "ready"} /\ pc'.acked = pc.acked /\ pc'.position = pc.position
    <2>1. TransferKept'
      BY <1>1, <1>4, <1>10, KeptStays DEF InTransfer
    <2>2. pc'.phase = "acking" => AckPlaced'
      BY <1>3, <1>4, <1>5, <1>6, <1>10 DEF AckPlaced
    <2> QED
      BY <1>5, <1>10, <2>1, <2>2 DEF TransferPlaced, ReadyPlaced, PacketPlaced, AckPlaced, EndPlaced
  <1>11. CASE /\ pc'.phase = "done" /\ over
              /\ pc'.acked = total /\ pc'.position = pc.position + MaxPacketSize0
    <2>1. total = Served
      BY <1>3, <1>7, <1>11, Sizes DEF Lesser
    <2>2. PICK j \in Match(pc.key) : pc'.acked = Lesser(pc.length, store.directory[j].length)
      BY <1>7, <1>9, <1>11, <2>1
    <2>3. EndPlaced'
      BY <1>4, <1>8, <1>11, <2>2 DEF EndPlaced, Match
    <2> QED
      BY <1>11, <2>3 DEF TransferPlaced, TransferKept, InTransfer, ReadyPlaced, PacketPlaced, AckPlaced
  <1>12. CASE /\ pc'.phase = "ready" /\ ~over
              /\ pc'.acked = total /\ pc'.position = pc.position + MaxPacketSize0
    <2>1. /\ total = pc.acked + MaxPacketSize0 /\ total < pc.length /\ total <= Served
          /\ total <= store.serve.length
      BY <1>3, <1>7, <1>12, Sizes DEF Lesser
    <2>2. PICK j \in Match(pc.key) : pc'.acked <= store.directory[j].length
      BY <1>9, <1>12, <2>1
    <2>3. TransferKept'
      BY <1>3, <1>4, <1>8, <1>12, <2>1, <2>2 DEF TransferKept, Match
    <2> QED
      BY <1>5, <1>12, <2>3 DEF TransferPlaced, ReadyPlaced, PacketPlaced, AckPlaced, EndPlaced
  <1> QED
    BY <1>4, <1>10, <1>11, <1>12

\* The data of a SETUP is not there yet.
LEMMA SetupStep ==
  ASSUME UpState, NEW x, NEW offer, NEW start, NEW ready, Runs(x, offer, start, ready),
         pc.phase = "setup"
  PROVE  TransferPlaced'
  <1> DEFINE t == streamer
             u == Unreplayed(t)
  <1>1. PcCycle("none", start, ready) /\ StoreCycle(x, offer) /\ ~start
    BY DEF Runs, Moved, connected, UpState
  <1>2. pc \in Transfers /\ t = StreamerOff /\ t \in Streamers /\ pc.position = 0
    BY DEF UpState, Shape, TransferPlaced
  <1>3. pc' = pc
    BY <1>1, <1>2 DEF PcCycle, Transfers
  <1>4. ~t.active /\ ~t.zlp /\ ~t.lookup_pending /\ ~t.start_deferred
    BY <1>2 DEF StreamerOff
  <1>5. t' = u
    <2>1. ~(store.serve.response /\ streamer.lookup_pending)
          /\ ~(start \/ streamer.start_deferred) /\ ~streamer.active /\ ~streamer.zlp
      BY <1>1, <1>4
    <2>2. streamer' = Unreplayed(streamer)
      BY <2>1, IdleStep
    <2> QED
      BY <2>2
  <1>6. u = StreamerOff
    <2>1. u = [StreamerOff EXCEPT !.start_deferred = FALSE]
      BY <1>2 DEF Unreplayed
    <2> HIDE DEF u
    <2> QED
      BY <2>1 DEF StreamerOff
  <1>7. TransferKept'
    BY <1>1, <1>3, KeptStays DEF InTransfer
  <1> QED
    BY <1>2, <1>3, <1>5, <1>6, <1>7
       DEF TransferPlaced, ReadyPlaced, PacketPlaced, AckPlaced, EndPlaced

\* A transfer that is over, and one that has not begun.
LEMMA RestStep ==
  ASSUME UpState, NEW x, NEW offer, NEW start, NEW ready, Runs(x, offer, start, ready),
         pc.phase \in {"idle", "done", "stalled"}
  PROVE  TransferPlaced'
  <1>1. PcCycle("none", start, ready) /\ StoreCycle(x, offer)
    BY DEF Runs, Moved, connected, UpState
  <1>2. pc' = pc
    BY <1>1 DEF PcCycle
  <1>3. store'.directory = store.directory /\ MatchIn(store', pc.key) = MatchIn(store, pc.key)
    BY <1>1, UpDirectory
  <1>4. EndPlaced'
    BY <1>2, <1>3 DEF UpState, TransferPlaced, EndPlaced, Match
  <1> QED
    BY <1>2, <1>4 DEF TransferPlaced, TransferKept, InTransfer, ReadyPlaced, PacketPlaced, AckPlaced

\* A SETUP begins a transfer, and the one before it is forgotten.
LEMMA TokenStep ==
  ASSUME UpState, NEW x, NEW offer, NEW received, NEW start, NEW ready,
         Moved(x, offer, TRUE, received, start, ready)
  PROVE  TransferPlaced'
  <1>1. SetupToken /\ streamer' = StreamerOff
    BY DEF Moved
  <1>2. PICK key \in Keys, length \in Lengths :
           pc' = [NoTransfer EXCEPT !.phase = "setup", !.key = key, !.length = length]
    BY <1>1 DEF SetupToken
  <1>3. length \in Nat \ {0}
    BY ServeAssumption
  <1>4. /\ pc'.phase = "setup" /\ pc'.key \in Keys /\ pc'.length = length /\ pc'.acked = 0
        /\ pc'.position = 0
    BY <1>2 DEF NoTransfer
  <1>5. TransferKept'
    BY <1>3, <1>4 DEF TransferKept
  <1> QED
    BY <1>1, <1>4, <1>5 DEF TransferPlaced, ReadyPlaced, PacketPlaced, AckPlaced, EndPlaced

\* The data of a SETUP: of a descriptor's request, or of another one.
LEMMA ReceivedStep ==
  ASSUME UpState, NEW x, NEW offer, NEW received, NEW start, NEW ready,
         Moved(x, offer, FALSE, received, start, ready), received # "none"
  PROVE  TransferPlaced'
  <1>1. PcCycle(received, start, ready) /\ StoreCycle(x, offer) /\ pc.phase = "setup"
        /\ received \in {"descriptor", "other"}
    BY DEF Moved, connected, UpState
  <1>2. CASE received = "other"
    <2>1. pc' = NoTransfer
      BY <1>1, <1>2 DEF PcCycle
    <2>2. pc'.phase = "idle"
      BY <2>1 DEF NoTransfer
    <2> QED
      BY <2>2 DEF TransferPlaced, TransferKept, InTransfer, ReadyPlaced, PacketPlaced, AckPlaced,
                  EndPlaced
  <1>3. CASE received = "descriptor"
    <2>1. pc' = [pc EXCEPT !.phase = "ready"] /\ pc \in Transfers
      BY <1>1, <1>3 DEF PcCycle, UpState, Shape
    <2>2. /\ pc'.phase = "ready" /\ pc'.key = pc.key /\ pc'.length = pc.length
          /\ pc'.acked = pc.acked /\ pc'.position = pc.position
      BY <2>1 DEF Transfers
    <2>3. TransferKept'
      BY <1>1, <2>2, KeptStays DEF InTransfer
    <2>4. Looking' /\ store'.serve.busy /\ store'.serve.key = pc.key
      BY <1>3, LookupStarts DEF UpState
    <2>5. LookupOn' /\ Resting'
      BY <2>2, <2>4 DEF LookupOn, Looking
    <2> QED
      BY <2>2, <2>3, <2>5 DEF TransferPlaced, ReadyPlaced, PacketPlaced, AckPlaced, EndPlaced
  <1> QED
    BY <1>1, <1>2, <1>3

\* The transfer of a device that is up.
LEMMA TransferPlacedNext ==
  ASSUME IInv, NEW x, NEW offer, NEW token, NEW received, NEW start, NEW ready,
         Moved(x, offer, token, received, start, ready), writer'.phase = "up"
  PROVE  TransferPlaced'
  <1>1. StoreCycle(x, offer) /\ (WriterMoved \/ WriterTakes(offer)) /\ Shape /\ NothingQueued
    BY WriterCases DEF Moved, StoreCycle, IInv
  <1>2. CASE writer.phase # "up"
    <2>1. pc' = NoTransfer
      BY <1>1, <1>2, QuietMoves
    <2>2. pc'.phase = "idle"
      BY <2>1 DEF NoTransfer
    <2> QED
      BY <2>2 DEF TransferPlaced, TransferKept, InTransfer, ReadyPlaced, PacketPlaced, AckPlaced,
                  EndPlaced
  <1>3. CASE writer.phase = "up"
    <2>1. UpState
      BY <1>3 DEF IInv, UpState
    <2>2. writer'.session = writer.session
      BY <1>1, SessionStays DEF StoreCycle
    <2>3. CASE token
      <3>1. token = TRUE
        BY <2>3 DEF Moved
      <3>2. Moved(x, offer, TRUE, received, start, ready)
        BY <3>1
      <3> QED
        BY <2>1, <3>2, TokenStep
    <2>4. CASE ~token /\ received # "none"
      <3>1. token = FALSE
        BY <2>4 DEF Moved
      <3>2. Moved(x, offer, FALSE, received, start, ready)
        BY <3>1
      <3> QED
        BY <2>1, <2>4, <3>2, ReceivedStep
    <2>5. CASE ~token /\ received = "none"
      <3>1. token = FALSE
        BY <2>5 DEF Moved
      <3>2. Moved(x, offer, FALSE, "none", start, ready)
        BY <2>5, <3>1
      <3>3. Runs(x, offer, start, ready)
        BY <2>2, <3>2 DEF Runs
      <3>4. CASE pc.phase = "setup"
        BY <2>1, <3>3, <3>4, SetupStep
      <3>5. CASE pc.phase = "ready"
        BY <2>1, <3>3, <3>5, ReadyStep
      <3>6. CASE pc.phase = "packet" /\ Sending
        BY <2>1, <3>3, <3>6, PacketSends
      <3>7. CASE pc.phase = "packet" /\ ~Sending
        BY <2>1, <3>3, <3>7, PacketWaits
      <3>8. CASE pc.phase = "acking"
        BY <2>1, <3>3, <3>8, AckStep
      <3>9. CASE pc.phase \in {"idle", "done", "stalled"}
        BY <2>1, <3>3, <3>9, RestStep
      <3> QED
        BY <1>1, <3>4, <3>5, <3>6, <3>7, <3>8, <3>9, TransferParts
    <2> QED
      BY <2>3, <2>4, <2>5
  <1> QED
    BY <1>2, <1>3

-----------------------------------------------------------------------------
(***************************************************************************)
(* The inductive invariant, and what it implies.                           *)
(***************************************************************************)

\* It holds before anything is plugged in.
LEMMA InvInit ==
  Init => IInv
  <1> SUFFICES ASSUME Init PROVE IInv
    OBVIOUS
  <1>1. /\ store = StoreOff /\ streamer = StreamerOff /\ writer = Unplugged /\ pc = NoTransfer
        /\ setups = 0 /\ exporter = ExporterOff
    BY DEF Init
  <1>2. /\ writer.phase = "off" /\ writer.session = 0 /\ writer.done = 0 /\ writer.bytes = 0
    BY <1>1 DEF Unplugged
  <1>3. writer \in Writers
    <2>1. Len(Scripts) \in Nat
      BY ServeAssumption
    <2> QED
      BY <1>1, <2>1 DEF Unplugged, Writers
  <1>4. Shape
    BY <1>1, <1>3, OffTyped, ResetTypes DEF Shape, ExporterOff
  <1>5. /\ store.valid = {} /\ store.allocator = 0 /\ store.capture = NoCapture
        /\ store.admin = NoAdmin /\ store.pending = NoRequest
        /\ store.export = NoExport /\ store.serve = NoServe
    BY <1>1 DEF StoreOff
  <1>6. /\ ~store.capture.active /\ ~store.capture.alloc_pending
        /\ store.admin.state = "IDLE" /\ ~store.admin.primed
        /\ ~store.serve.busy /\ ~store.serve.selected /\ ~store.serve.found
        /\ ~store.serve.response /\ store.serve.selected = store.serve.found
        /\ store.pending = NoRequest /\ ~store.export.valid /\ exporter.state = "IDLE"
    BY <1>1, <1>5 DEF NoCapture, NoAdmin, NoServe, NoExport, ExporterOff
  <1>7. WriterPlaced /\ CapturePlaced /\ ScanPlaced /\ CaptureWhole
    BY <1>2, <1>6 DEF WriterPlaced, CapturePlaced, ScanPlaced, CaptureWhole, Capturing
  <1>8. DirectoryWhole /\ QuietUnlessUp /\ AnswersTrue
    BY <1>1, <1>2, <1>5, <1>6 DEF DirectoryWhole, QuietUnlessUp, AnswersTrue
  <1>9. ServeTrue
    BY <1>6 DEF ServeTrue
  <1>10. NothingQueued
    BY <1>1 DEF NothingQueued, StreamerOff
  <1> QED
    BY <1>2, <1>4, <1>7, <1>8, <1>9, <1>10 DEF IInv

\* It is kept by a cycle.
LEMMA InvNext ==
  IInv /\ [Next]_vars => IInv'
  <1>1. ASSUME IInv, Next PROVE IInv'
    <2>1. /\ Shape /\ WriterPlaced /\ CapturePlaced /\ ScanPlaced /\ DirectoryWhole
          /\ CaptureWhole /\ QuietUnlessUp /\ AnswersTrue /\ ServeTrue /\ NothingQueued
          /\ writer.phase = "up" => TransferPlaced
      BY <1>1 DEF IInv
    <2>2. PICK x, offer, token, received, start, ready :
             Moved(x, offer, token, received, start, ready)
      BY <1>1, <2>1, NextMoves, Zenon
    <2>3. StoreCycle(x, offer) /\ WriterNext(offer)
      BY <2>2 DEF Moved, StoreCycle
    <2>4. Shape'
      <3>1. store' \in Stores
        BY <2>1, <2>3, StoreTyped
      <3>2. streamer' \in Streamers
        BY <2>1, <2>2, StreamerNext
      <3>3. writer' \in Writers
        BY <2>1, <2>3, WriterPlacedNext
      <3>4. pc' \in Transfers
        BY <2>1, <2>2, TransferTyped
      <3>5. setups' \in Nat
        BY <2>2 DEF Moved
      <3>6. {"state", "slot"} \subseteq DOMAIN exporter' /\ exporter'.slot \in Entry
        BY <2>1, <2>2, ExporterNext
      <3> QED
        BY <3>1, <3>2, <3>3, <3>4, <3>5, <3>6 DEF Shape
    <2>5. WriterPlaced'
      BY <2>1, <2>3, WriterPlacedNext
    <2>6. CapturePlaced'
      BY <2>1, <2>3, CapturePlacedNext
    <2>7. ScanPlaced'
      BY <2>1, <2>3, ScanPlacedNext
    <2>8. DirectoryWhole'
      BY <2>1, <2>3, DirectoryWholeNext
    <2>9. CaptureWhole'
      BY <2>1, <2>3, CaptureWholeNext
    <2>10. QuietUnlessUp'
      BY <2>1, <2>2, QuietUnlessUpNext
    <2>11. AnswersTrue'
      BY <2>1, <2>2, AnswersTrueNext
    <2>12. ServeTrue'
      BY <2>1, <2>2, ServeTrueNext
    <2>13. NothingQueued'
      BY <2>1, <2>2, StreamerNext
    <2>14. writer'.phase = "up" => TransferPlaced'
      BY <1>1, <2>2, TransferPlacedNext
    <2> QED
      BY <2>4, <2>5, <2>6, <2>7, <2>8, <2>9, <2>10, <2>11, <2>12, <2>13, <2>14 DEF IInv
  <1>2. ASSUME IInv, UNCHANGED vars PROVE IInv'
    <2>1. /\ store' = store /\ streamer' = streamer /\ writer' = writer /\ pc' = pc
          /\ setups' = setups /\ exporter' = exporter
      BY <1>2 DEF vars, served, export
    <2>2. Shape' <=> Shape
      BY <2>1 DEF Shape
    <2>3. script' = script /\ current' = current
      BY <2>1 DEF script, current
    <2>4. (WriterPlaced' <=> WriterPlaced) /\ (Capturing' <=> Capturing)
      BY <2>1, <2>3 DEF WriterPlaced, Capturing
    <2>5. CapturePlaced' <=> CapturePlaced
      BY <2>1, <2>3, <2>4 DEF CapturePlaced
    <2>6. \A key : MatchIn(store', key) = MatchIn(store, key)
      BY <2>1
    <2>7. ScanPlaced' <=> ScanPlaced
      BY <2>1, <2>4, <2>6 DEF ScanPlaced, Match
    <2>8. Limit' = Limit
      BY <2>1 DEF Limit
    <2>9. DirectoryWhole' <=> DirectoryWhole
      BY <2>1, <2>3, <2>8 DEF DirectoryWhole, HeldWhole
    <2>10. CaptureWhole' <=> CaptureWhole
      BY <2>1, <2>4 DEF CaptureWhole
    <2>11. QuietUnlessUp' <=> QuietUnlessUp
      BY <2>1 DEF QuietUnlessUp
    <2>12. AnswersTrue' <=> AnswersTrue
      BY <2>1 DEF AnswersTrue, InDirectory
    <2>13. ServeTrue' <=> ServeTrue
      BY <2>1, <2>6 DEF ServeTrue, InDirectory, Match
    <2>14. NothingQueued' <=> NothingQueued
      BY <2>1 DEF NothingQueued
    <2>15. (Found' <=> Found) /\ Served' = Served /\ (Resting' <=> Resting)
      BY <2>1, <2>6 DEF Found, Match, Served, Resting
    <2>16. (LookupDone' <=> LookupDone) /\ (LookupOn' <=> LookupOn)
      BY <2>1, <2>15 DEF LookupDone, LookupOn
    <2>17. /\ Sending' <=> Sending
           /\ Waiting' <=> Waiting
           /\ Replaying' <=> Replaying
           /\ Ending' <=> Ending
           /\ Refusing' <=> Refusing
      BY <2>1, <2>15, <2>16 DEF Sending, Waiting, Replaying, Ending, Refusing
    <2>18. TransferPlaced' <=> TransferPlaced
      BY <2>1, <2>6, <2>15, <2>16, <2>17
         DEF TransferPlaced, TransferKept, InTransfer, ReadyPlaced, PacketPlaced, AckPlaced, EndPlaced,
             Match
    <2> QED
      BY <1>2, <2>1, <2>2, <2>4, <2>5, <2>7, <2>9, <2>10, <2>11, <2>12, <2>13, <2>14, <2>18 DEF IInv
  <1> QED
    BY <1>1, <1>2

\* The invariant of the descriptor store, its writer and its readers.
THEOREM DescriptorServeInv ==
  Spec => []IInv
  BY InvInit, InvNext, PTL DEF Spec

\* An entry of the directory is one capture of the device that is up.
LEMMA HeldIsWhole ==
  ASSUME IInv, NEW key, NEW start, NEW length, writer.phase # "clear",
         EntryIn(store, key, start, length)
  PROVE  Whole(key, start, length)
  <1>1. /\ start \in Nat /\ length \in Nat /\ start + length <= store.allocator
        /\ \A i \in 0..(length - 1) : store.memory[start + i] = <<key, writer.session, i>>
    BY EntryWhole DEF IInv
  <1>2. ASSUME NEW i \in 0..(length - 1)
        PROVE  /\ store.memory[start + i][1] = key
               /\ store.memory[start + i][2] = store.memory[start][2]
               /\ store.memory[start + i][3] = i
    <2>1. 0 \in 0..(length - 1) /\ start + 0 = start
      BY <1>1
    <2>2. store.memory[start] = <<key, writer.session, 0>>
      BY <1>1, <2>1
    <2> QED
      BY <1>1, <2>2
  <1> QED
    BY <1>1, <1>2 DEF Whole

\* The directory names a descriptor once, and an entry is one whole capture of
\* this session's device: over aborts, recaptures and overflows (EntriesWhole).
THEOREM EntriesAreWhole ==
  Spec => []EntriesWhole
  <1>1. IInv => EntriesWhole
    <2> SUFFICES ASSUME IInv, writer.phase # "clear" PROVE EntriesWhole
      BY DEF EntriesWhole
    <2>1. Shape /\ WriterPlaced /\ CapturePlaced /\ DirectoryWhole /\ QuietUnlessUp
      BY DEF IInv
    <2>2. ASSUME NEW i \in store.valid
          PROVE  LET d == store.directory[i]
                 IN  /\ Whole(d.key, d.start, d.length)
                     /\ store.memory[d.start][2] = writer.session
                     /\ <<d.key, d.length>> \in {script[k] : k \in DOMAIN script}
      <3> DEFINE d == store.directory[i]
      <3>1. d \in Records
        BY <2>1, StoreParts DEF Shape
      <3>2. d = [key |-> d.key, start |-> d.start, length |-> d.length]
        BY <3>1 DEF Records
      <3>3. EntryIn(store, d.key, d.start, d.length)
        BY <3>2 DEF EntryIn
      <3>4. Whole(d.key, d.start, d.length)
        BY <3>3, HeldIsWhole
      <3>5. PICK k \in DOMAIN script : script[k] = <<d.key, d.length>>
        BY <2>1 DEF DirectoryWhole
      <3>6. writer.phase # "off"
        BY <2>1 DEF QuietUnlessUp
      <3>7. script \in Seq(Keys \X (Nat \ {0}))
        BY <2>1, <3>6, ScriptParts DEF WriterPlaced
      <3>8. script[k] \in Keys \X (Nat \ {0})
        BY <3>5, <3>7
      <3>9. d.length \in Nat /\ d.length # 0 /\ d.start \in Nat
        BY <3>1, <3>5, <3>8 DEF Records
      <3>10. store.memory[d.start + 0] = <<d.key, writer.session, 0>>
        <4> HIDE DEF d
        <4>1. 0 \in 0..(d.length - 1)
          BY <3>9
        <4>2. \A a \in 0..(d.length - 1) : store.memory[d.start + a] = <<d.key, writer.session, a>>
          BY <2>1, <3>3, EntryWhole
        <4> QED
          BY <4>1, <4>2
      <3>11. store.memory[d.start][2] = writer.session
        <4> HIDE DEF d
        <4>1. d.start + 0 = d.start
          BY <3>9
        <4> QED
          BY <3>10, <4>1
      <3> QED
        BY <3>4, <3>5, <3>11
    <2> QED
      BY <2>1, <2>2 DEF EntriesWhole, DirectoryWhole
  <1> QED
    BY <1>1, DescriptorServeInv, PTL

\* The byte on the wire is the next one of the descriptor the PC asked for, over
\* waits of the transmitter and packets that are sent again (RightByte).
THEOREM BytesAreRight ==
  Spec => []RightByte
  <1>1. IInv => RightByte
    <2> SUFFICES ASSUME IInv, connected, streamer.active, pc.phase = "packet"
                 PROVE  /\ serve_data(store) = <<pc.key, writer.session, streamer.pos>>
                        /\ streamer.pos = pc.acked + pc.bytes
      BY DEF RightByte
    <2>1. TransferPlaced
      BY DEF IInv, connected
    <2>2. Sending
      BY <2>1 DEF TransferPlaced, PacketPlaced
    <2>3. pc.acked = pc.position
      BY <2>1 DEF TransferPlaced, TransferKept, InTransfer
    <2> QED
      BY <2>2, <2>3 DEF Sending, serve_data
  <1> QED
    BY <1>1, DescriptorServeInv, PTL

\* A transfer the PC takes for complete has what it asked for or what the device
\* has, and only a descriptor it does not have is refused (TransferComplete).
THEOREM TransfersComplete ==
  Spec => []TransferComplete
  <1>1. IInv => TransferComplete
    <2> SUFFICES ASSUME IInv, connected PROVE TransferComplete
      BY DEF TransferComplete
    <2>1. EndPlaced
      BY DEF IInv, connected, TransferPlaced
    <2>2. \A key : EntryOf(key) = Match(key)
      BY DEF EntryOf, Match, MatchIn
    <2> QED
      BY <2>1, <2>2 DEF EndPlaced, TransferComplete
  <1> QED
    BY <1>1, DescriptorServeInv, PTL

-----------------------------------------------------------------------------
(***************************************************************************)
(* The exporter, the plane and the builder: what a step makes of each.     *)
(***************************************************************************)
Exporters ==
    [state : {"IDLE", "SLOT_WAIT", "SLOT_PIPELINE", "SLOT_CHECK", "EMIT"}, slot : Entry,
     offset : Nat, length : Nat, key : KeyNames, generation : Nat,
     payload : {"IDLE", "PIPELINE", "RESPONSE"}, address : Nat, data : Bytes,
     done : BOOLEAN]
Planes ==
    [link_q : BOOLEAN, session_q : BOOLEAN, export_pending : BOOLEAN,
     owner : {"none", "descriptor", "other"}, request_pending : BOOLEAN, address : Nat]
Headers == [generation : Nat, key : KeyNames, offset : Nat, length : Nat]
Builders ==
    [building : BOOLEAN, index : Nat, waiting : BOOLEAN, queued : BOOLEAN, ready : BOOLEAN,
     header : Headers, data : Seq(Bytes)]

\* The exporter's place in the directory and in the descriptor.
SamePlace(n, e) ==
    /\ n.state = e.state /\ n.slot = e.slot /\ n.offset = e.offset /\ n.length = e.length
    /\ n.key = e.key /\ n.generation = e.generation
SameByte(n, e) == n.payload = e.payload /\ n.address = e.address /\ n.data = e.data

\* The sizes of a fragment.
LEMMA FragmentSizes ==
  FragmentBytes \in Nat /\ FragmentBytes >= 1
  BY ExportAssumption

\* Nothing is asked for, and nothing is sent.
LEMMA ExportOffTyped ==
  ExporterOff \in Exporters /\ PlaneOff \in Planes /\ BuilderOff \in Builders
  <1>1. NoByte \in Bytes /\ NoKey \in KeyNames /\ 0 \in Entry
    BY ResetTypes
  <1>2. NoHeader \in Headers
    BY <1>1 DEF NoHeader, Headers
  <1>3. <<>> \in Seq(Bytes)
    OBVIOUS
  <1>4. ExporterOff \in Exporters
    BY <1>1 DEF ExporterOff, Exporters
  <1>5. PlaneOff \in Planes
    BY DEF PlaneOff, Planes
  <1>6. BuilderOff \in Builders
    BY <1>2, <1>3 DEF BuilderOff, Builders
  <1> QED
    BY <1>4, <1>5, <1>6

\* The byte on its way: asked for, read, answered, or given up.
LEMMA PayloadFields ==
  ASSUME NEW e \in Exporters, NEW p \in Planes, NEW b \in Builders, NEW j
  PROVE  LET n == PayloadStep(e, p, b, j)
             over == tx_abort(e, p, j) \/ message_ready(p, b) \/ ~message_valid(e)
         IN  /\ n \in Exporters /\ SamePlace(n, e) /\ n.data = e.data /\ n.done = e.done
             /\ over => n.payload = "IDLE"
             /\ ~over /\ e.payload = "IDLE" =>
                  IF tx_request_issue(e, p, b, j)
                  THEN n.payload = "PIPELINE" /\ n.address = b.index - 1
                  ELSE n.payload = "IDLE"
             /\ ~over /\ e.payload = "PIPELINE" =>
                  n.payload = "RESPONSE" /\ n.address = e.address
             /\ e.payload = "RESPONSE" => n.payload = "IDLE"
  <1> DEFINE n == PayloadStep(e, p, b, j)
             over == tx_abort(e, p, j) \/ message_ready(p, b) \/ ~message_valid(e)
             idle == [e EXCEPT !.payload = "IDLE"]
             asked == [e EXCEPT !.payload = "PIPELINE", !.address = b.index - 1]
             answered == [e EXCEPT !.payload = "RESPONSE"]
  <1>1. e.payload \in {"IDLE", "PIPELINE", "RESPONSE"}
    BY DEF Exporters
  <1>2. /\ over => n = idle
        /\ ~over /\ e.payload = "IDLE" => n = IF tx_request_issue(e, p, b, j) THEN asked ELSE e
        /\ ~over /\ e.payload = "PIPELINE" => n = answered
        /\ ~over /\ e.payload = "RESPONSE" => n = idle
    BY DEF PayloadStep
  <1>3. /\ idle \in Exporters /\ SamePlace(idle, e) /\ idle.data = e.data /\ idle.done = e.done
        /\ idle.payload = "IDLE"
    BY DEF Exporters, SamePlace
  <1>4. tx_request_issue(e, p, b, j) =>
          /\ asked \in Exporters /\ SamePlace(asked, e) /\ asked.data = e.data
          /\ asked.done = e.done /\ asked.payload = "PIPELINE" /\ asked.address = b.index - 1
    <2> SUFFICES ASSUME tx_request_issue(e, p, b, j)
                 PROVE  /\ asked \in Exporters /\ SamePlace(asked, e) /\ asked.data = e.data
                        /\ asked.done = e.done /\ asked.payload = "PIPELINE"
                        /\ asked.address = b.index - 1
      OBVIOUS
    <2>1. b.index - 1 \in Nat
      BY FragmentSizes DEF tx_request_issue, tx_payload_request, in_payload, Builders
    <2> QED
      BY <2>1 DEF Exporters, SamePlace
  <1>5. /\ answered \in Exporters /\ SamePlace(answered, e) /\ answered.data = e.data
        /\ answered.done = e.done /\ answered.payload = "RESPONSE"
        /\ answered.address = e.address
    BY DEF Exporters, SamePlace
  <1>6. SamePlace(e, e)
    BY DEF SamePlace
  <1> DEFINE Fields ==
               /\ n \in Exporters /\ SamePlace(n, e) /\ n.data = e.data /\ n.done = e.done
               /\ over => n.payload = "IDLE"
               /\ ~over /\ e.payload = "IDLE" =>
                    IF tx_request_issue(e, p, b, j)
                    THEN n.payload = "PIPELINE" /\ n.address = b.index - 1
                    ELSE n.payload = "IDLE"
               /\ ~over /\ e.payload = "PIPELINE" =>
                    n.payload = "RESPONSE" /\ n.address = e.address
               /\ e.payload = "RESPONSE" => n.payload = "IDLE"
  <1> SUFFICES Fields
    OBVIOUS
  <1> HIDE DEF n, over, idle, asked, answered
  <1>7. CASE over
    BY <1>2, <1>3, <1>7
  <1>8. CASE ~over /\ e.payload = "IDLE"
    BY <1>2, <1>4, <1>6, <1>8
  <1>9. CASE ~over /\ e.payload = "PIPELINE"
    BY <1>2, <1>5, <1>9
  <1>10. CASE ~over /\ e.payload = "RESPONSE"
    BY <1>2, <1>3, <1>10
  <1> QED
    BY <1>1, <1>7, <1>8, <1>9, <1>10

\* The next slot, or the end of the export.
LEMMA NextSlotFields ==
  ASSUME NEW e \in Exporters
  PROVE  LET n == NextSlot(e)
         IN  /\ n \in Exporters /\ n.state \in {"IDLE", "SLOT_WAIT"} /\ SameByte(n, e)
             /\ n.generation = e.generation
  <1>1. e.slot \in Entry
    BY DEF Exporters
  <1>2. e.slot # Slots - 1 => e.slot + 1 \in Entry
    BY <1>1, Sizes DEF Entry
  <1>3. CASE e.slot = Slots - 1
    <2>1. NextSlot(e) = [e EXCEPT !.state = "IDLE", !.done = TRUE]
      BY <1>3 DEF NextSlot
    <2> QED
      BY <2>1 DEF Exporters, SameByte
  <1>4. CASE e.slot # Slots - 1
    <2> DEFINE next == e.slot + 1
    <2>1. NextSlot(e) = [e EXCEPT !.state = "SLOT_WAIT", !.slot = next, !.offset = 0]
      BY <1>4 DEF NextSlot
    <2>2. next \in Entry
      BY <1>2, <1>4
    <2> HIDE DEF next
    <2>3. NextSlot(e) \in Exporters
      BY <2>1, <2>2, ResetTypes, Zenon DEF Exporters
    <2> QED
      BY <2>1, <2>3 DEF Exporters, SameByte
  <1> QED
    BY <1>3, <1>4

\* The exporter on its way from slot to slot, and from fragment to fragment.
LEMMA SlotFields ==
  ASSUME NEW e \in Exporters, NEW p, NEW b, NEW j, j.generation \in Nat,
         NEW s \in Stores, NEW x
  PROVE  LET n == SlotStep(e, p, b, j, s, x)
         IN  /\ n \in Exporters /\ SameByte(n, e)
             /\ e.state = "SLOT_WAIT" /\ export_ready(s, x) => n.state = "SLOT_PIPELINE"
             /\ e.state = "SLOT_PIPELINE" /\ ~s.export.response => n.state = "SLOT_PIPELINE"
             /\ n.state # "IDLE" =>
                  \/ e.state # "IDLE" /\ n.generation = e.generation
                  \/ export_start(e, p, j) /\ n.generation = j.generation
             /\ e.state = "EMIT" /\ ~message_ready(p, b) => n = e
             /\ e.state = "EMIT" /\ n.state = "EMIT" =>
                  /\ n.key = e.key /\ n.length = e.length
                  /\ n.offset = e.offset \/ n.offset < e.length
             /\ e.state # "EMIT" /\ n.state = "EMIT" =>
                  /\ e.state = "SLOT_CHECK" /\ s.export.valid /\ s.export.length # 0
                  /\ n.key = s.export.key /\ n.length = s.export.length /\ n.offset = 0
  <1> DEFINE n == SlotStep(e, p, b, j, s, x)
             started == [e EXCEPT !.state = "SLOT_WAIT", !.slot = 0, !.offset = 0,
                                  !.generation = j.generation]
             begun == [e EXCEPT !.state = "EMIT", !.offset = 0, !.key = s.export.key,
                                !.length = s.export.length]
             further == [e EXCEPT !.offset = @ + FragmentBytes]
  <1>1. e.state \in {"IDLE", "SLOT_WAIT", "SLOT_PIPELINE", "SLOT_CHECK", "EMIT"}
    BY DEF Exporters
  <1>2. SameByte(e, e)
    BY DEF SameByte
  <1>3. CASE e.state = "IDLE"
    <2>1. n = IF export_start(e, p, j) THEN started ELSE e
      BY <1>3 DEF SlotStep
    <2>2. /\ started \in Exporters /\ SameByte(started, e) /\ started.state = "SLOT_WAIT"
          /\ started.generation = j.generation
      BY Sizes DEF Exporters, SameByte
    <2> HIDE DEF n, started
    <2>3. CASE export_start(e, p, j)
      <3>1. n = started
        BY <2>1, <2>3
      <3> QED
        BY <1>3, <2>2, <2>3, <3>1 DEF n
    <2>4. CASE ~export_start(e, p, j)
      <3>1. n = e
        BY <2>1, <2>4
      <3> QED
        BY <1>2, <1>3, <3>1 DEF n
    <2> QED
      BY <2>3, <2>4
  <1>4. CASE e.state = "SLOT_WAIT"
    <2>1. n = IF export_ready(s, x) THEN [e EXCEPT !.state = "SLOT_PIPELINE"] ELSE e
      BY <1>4 DEF SlotStep
    <2> QED
      BY <1>2, <1>4, <2>1 DEF Exporters, SameByte
  <1>5. CASE e.state = "SLOT_PIPELINE"
    <2>1. n = IF s.export.response THEN [e EXCEPT !.state = "SLOT_CHECK"] ELSE e
      BY <1>5 DEF SlotStep
    <2> QED
      BY <1>2, <1>5, <2>1 DEF Exporters, SameByte
  <1>6. CASE e.state = "SLOT_CHECK"
    <2> DEFINE good == s.export.valid /\ s.export.key \in ReportKeys /\ s.export.length # 0
    <2>1. n = IF good THEN begun ELSE NextSlot(e)
      BY <1>6 DEF SlotStep
    <2>2. s.export.key \in KeyNames /\ s.export.length \in Nat
      BY StoreParts DEF Exports
    <2>3. /\ begun \in Exporters /\ SameByte(begun, e) /\ begun.state = "EMIT"
          /\ begun.generation = e.generation /\ begun.offset = 0
          /\ begun.key = s.export.key /\ begun.length = s.export.length
      BY <2>2 DEF Exporters, SameByte
    <2> HIDE DEF n, begun
    <2>4. CASE good
      <3>1. n = begun
        BY <2>1, <2>4
      <3> QED
        BY <1>6, <2>3, <2>4, <3>1 DEF n
    <2>5. CASE ~good
      <3>1. n = NextSlot(e)
        BY <2>1, <2>5
      <3> QED
        BY <1>6, <3>1, NextSlotFields DEF n
    <2> QED
      BY <2>4, <2>5
  <1>7. CASE e.state = "EMIT"
    <2>1. n = IF ~message_ready(p, b) THEN e
              ELSE IF e.offset + FragmentBytes >= e.length THEN NextSlot(e) ELSE further
      BY <1>7 DEF SlotStep
    <2>2. e.offset + FragmentBytes \in Nat /\ e.length \in Nat
      BY FragmentSizes DEF Exporters
    <2>3. /\ further \in Exporters /\ SameByte(further, e) /\ further.state = "EMIT"
          /\ further.generation = e.generation /\ further.offset = e.offset + FragmentBytes
          /\ further.key = e.key /\ further.length = e.length
      BY <1>7, <2>2 DEF Exporters, SameByte
    <2> HIDE DEF n, further
    <2>4. CASE ~message_ready(p, b)
      <3>1. n = e
        BY <2>1, <2>4
      <3> QED
        BY <1>2, <1>7, <2>4, <3>1 DEF n
    <2>5. CASE message_ready(p, b) /\ e.offset + FragmentBytes >= e.length
      <3>1. n = NextSlot(e)
        BY <2>1, <2>5
      <3> QED
        BY <1>7, <2>5, <3>1, NextSlotFields DEF n
    <2>6. CASE message_ready(p, b) /\ ~(e.offset + FragmentBytes >= e.length)
      <3>1. n = further
        BY <2>1, <2>6
      <3> QED
        BY <1>7, <2>2, <2>3, <2>6, <3>1 DEF n
    <2> QED
      BY <2>4, <2>5, <2>6
  <1> QED
    BY <1>1, <1>3, <1>4, <1>5, <1>6, <1>7

\* A cycle of the exporter that is not reset.
LEMMA ExporterFields ==
  ASSUME NEW e \in Exporters, NEW p \in Planes, NEW b \in Builders, NEW j,
         j.generation \in Nat, NEW s \in Stores, NEW x, ~x.clear, ExportRead(e, s) \in Bytes
  PROVE  LET n == ExporterStep(e, p, b, j, s, x)
             over == tx_abort(e, p, j) \/ message_ready(p, b) \/ ~message_valid(e)
         IN  /\ n \in Exporters /\ n.data = ExportRead(e, s)
             /\ over => n.payload = "IDLE"
             /\ ~over /\ e.payload = "IDLE" =>
                  IF tx_request_issue(e, p, b, j)
                  THEN n.payload = "PIPELINE" /\ n.address = b.index - 1
                  ELSE n.payload = "IDLE"
             /\ ~over /\ e.payload = "PIPELINE" =>
                  n.payload = "RESPONSE" /\ n.address = e.address
             /\ e.payload = "RESPONSE" => n.payload = "IDLE"
             /\ e.state = "SLOT_WAIT" /\ export_ready(s, x) => n.state = "SLOT_PIPELINE"
             /\ e.state = "SLOT_PIPELINE" /\ ~s.export.response => n.state = "SLOT_PIPELINE"
             /\ n.state # "IDLE" =>
                  \/ e.state # "IDLE" /\ n.generation = e.generation
                  \/ export_start(e, p, j) /\ n.generation = j.generation
             /\ e.state = "EMIT" /\ ~message_ready(p, b) => SamePlace(n, e)
             /\ e.state = "EMIT" /\ n.state = "EMIT" =>
                  /\ n.key = e.key /\ n.length = e.length
                  /\ n.offset = e.offset \/ n.offset < e.length
             /\ e.state # "EMIT" /\ n.state = "EMIT" =>
                  /\ e.state = "SLOT_CHECK" /\ s.export.valid /\ s.export.length # 0
                  /\ n.key = s.export.key /\ n.length = s.export.length /\ n.offset = 0
  <1> DEFINE read == [e EXCEPT !.done = FALSE, !.data = ExportRead(e, s)]
             r == PayloadStep(read, p, b, j)
             n == SlotStep(r, p, b, j, s, x)
  <1>1. /\ read \in Exporters /\ SamePlace(read, e) /\ read.payload = e.payload
        /\ read.address = e.address /\ read.data = ExportRead(e, s)
    <2> DEFINE d == ExportRead(e, s)
    <2> HIDE DEF d
    <2>1. d \in Bytes
      BY DEF d
    <2>2. [e EXCEPT !.done = FALSE, !.data = d] \in Exporters
      BY <2>1, Zenon DEF Exporters
    <2> QED
      BY <2>2 DEF d, Exporters, SamePlace
  <1>2. ExporterStep(e, p, b, j, s, x) = n
    BY DEF ExporterStep
  <1> HIDE DEF read
  <1>3. /\ tx_abort(read, p, j) <=> tx_abort(e, p, j)
        /\ message_valid(read) <=> message_valid(e)
        /\ tx_request_issue(read, p, b, j) <=> tx_request_issue(e, p, b, j)
    BY <1>1 DEF SamePlace, tx_abort, tx_valid, message_valid, tx_request_issue, tx_payload_request
  <1> DEFINE over == tx_abort(e, p, j) \/ message_ready(p, b) \/ ~message_valid(e)
  <1>4. /\ r \in Exporters /\ SamePlace(r, e) /\ r.data = ExportRead(e, s)
        /\ over => r.payload = "IDLE"
        /\ ~over /\ e.payload = "IDLE" =>
             IF tx_request_issue(e, p, b, j)
             THEN r.payload = "PIPELINE" /\ r.address = b.index - 1
             ELSE r.payload = "IDLE"
        /\ ~over /\ e.payload = "PIPELINE" =>
             r.payload = "RESPONSE" /\ r.address = e.address
        /\ e.payload = "RESPONSE" => r.payload = "IDLE"
    BY <1>1, <1>3, PayloadFields DEF SamePlace
  <1> HIDE DEF r, over
  <1>5. export_start(r, p, j) <=> export_start(e, p, j)
    BY <1>4 DEF export_start, SamePlace
  <1>6. /\ n \in Exporters /\ SameByte(n, r)
        /\ r.state = "SLOT_WAIT" /\ export_ready(s, x) => n.state = "SLOT_PIPELINE"
        /\ r.state = "SLOT_PIPELINE" /\ ~s.export.response => n.state = "SLOT_PIPELINE"
        /\ n.state # "IDLE" =>
             \/ r.state # "IDLE" /\ n.generation = r.generation
             \/ export_start(r, p, j) /\ n.generation = j.generation
        /\ r.state = "EMIT" /\ ~message_ready(p, b) => n = r
        /\ r.state = "EMIT" /\ n.state = "EMIT" =>
             /\ n.key = r.key /\ n.length = r.length
             /\ n.offset = r.offset \/ n.offset < r.length
        /\ r.state # "EMIT" /\ n.state = "EMIT" =>
             /\ r.state = "SLOT_CHECK" /\ s.export.valid /\ s.export.length # 0
             /\ n.key = s.export.key /\ n.length = s.export.length /\ n.offset = 0
    BY <1>4, SlotFields
  <1> HIDE DEF n
  <1> DEFINE k == ExporterStep(e, p, b, j, s, x)
  <1>7. k = n
    BY <1>2
  <1> HIDE DEF k
  <1>8. /\ k \in Exporters /\ k.data = ExportRead(e, s)
        /\ over => k.payload = "IDLE"
        /\ ~over /\ e.payload = "IDLE" =>
             IF tx_request_issue(e, p, b, j)
             THEN k.payload = "PIPELINE" /\ k.address = b.index - 1
             ELSE k.payload = "IDLE"
        /\ ~over /\ e.payload = "PIPELINE" =>
             k.payload = "RESPONSE" /\ k.address = e.address
        /\ e.payload = "RESPONSE" => k.payload = "IDLE"
    BY <1>4, <1>6, <1>7 DEF SameByte
  <1>9. /\ e.state = "SLOT_WAIT" /\ export_ready(s, x) => k.state = "SLOT_PIPELINE"
        /\ e.state = "SLOT_PIPELINE" /\ ~s.export.response => k.state = "SLOT_PIPELINE"
        /\ k.state # "IDLE" =>
             \/ e.state # "IDLE" /\ k.generation = e.generation
             \/ export_start(e, p, j) /\ k.generation = j.generation
        /\ e.state = "EMIT" /\ ~message_ready(p, b) => SamePlace(k, e)
        /\ e.state = "EMIT" /\ k.state = "EMIT" =>
             /\ k.key = e.key /\ k.length = e.length
             /\ k.offset = e.offset \/ k.offset < e.length
        /\ e.state # "EMIT" /\ k.state = "EMIT" =>
             /\ e.state = "SLOT_CHECK" /\ s.export.valid /\ s.export.length # 0
             /\ k.key = s.export.key /\ k.length = s.export.length /\ k.offset = 0
    BY <1>4, <1>5, <1>6, <1>7 DEF SamePlace
  <1> QED
    BY <1>8, <1>9 DEF k, over

\* Who has the builder, and the byte it was asked for.
LEMMA OwnerFields ==
  ASSUME NEW e, NEW p \in Planes, NEW b \in Builders, NEW j,
         j.link \in BOOLEAN, j.session \in BOOLEAN
  PROVE  LET n == PlaneStep(e, p, b, j)
             abort == tx_abort(e, p, j)
         IN  /\ n \in Planes /\ n.session_q = j.session
             /\ abort => n.owner = "none" /\ ~n.request_pending
             /\ ~abort /\ p.owner = "none" /\ tx_fill_start(e, p, b, j) =>
                  n.owner = (IF j.other THEN "other" ELSE "descriptor") /\ ~n.request_pending
             /\ ~abort /\ p.owner = "none" /\ ~tx_fill_start(e, p, b, j) =>
                  n.owner = "none" /\ (n.request_pending => p.request_pending)
             /\ ~abort /\ p.owner # "none" /\ b.ready => n.owner = "none" /\ ~n.request_pending
             /\ ~abort /\ p.owner # "none" /\ ~b.ready =>
                  /\ n.owner = p.owner
                  /\ tx_request_issue(e, p, b, j) => n.request_pending /\ n.address = b.index - 1
                  /\ ~tx_request_issue(e, p, b, j) =>
                       /\ n.address = p.address
                       /\ n.request_pending <=>
                            p.request_pending /\ ~response_matches(e, p, b, j)
  <1> DEFINE o == OwnerStep(e, p, b, j)
             start == tx_fill_start(e, p, b, j)
             issue == tx_request_issue(e, p, b, j)
             match == response_matches(e, p, b, j)
             abort == tx_abort(e, p, j)
             taken == IF j.other THEN "other" ELSE "descriptor"
             n == PlaneStep(e, p, b, j)
             free == [p EXCEPT !.owner = "none", !.request_pending = FALSE]
             given == [p EXCEPT !.owner = taken, !.request_pending = FALSE]
             asked == [p EXCEPT !.request_pending = TRUE, !.address = b.index - 1]
             answered == [p EXCEPT !.request_pending = FALSE]
  <1>1. /\ abort => o = free
        /\ ~abort /\ start /\ p.owner = "none" => o = given
        /\ ~abort /\ p.owner # "none" /\ b.ready => o = free
        /\ ~abort /\ ~(start /\ p.owner = "none") /\ ~(p.owner # "none" /\ b.ready) =>
             /\ issue => o = asked
             /\ ~issue /\ match => o = answered
             /\ ~issue /\ ~match => o = p
    BY DEF OwnerStep
  <1>2. issue => p.owner = "descriptor" /\ b.index - 1 \in Nat
    BY FragmentSizes DEF tx_request_issue, tx_payload_request, in_payload, Builders
  <1>3. match => p.owner = "descriptor"
    BY DEF response_matches
  <1>4. taken \in {"other", "descriptor"}
    OBVIOUS
  <1> HIDE DEF start, issue, match, abort, taken
  <1>5. /\ free \in Planes /\ free.owner = "none" /\ ~free.request_pending
        /\ given \in Planes /\ given.owner = taken /\ ~given.request_pending
        /\ answered \in Planes /\ answered.owner = p.owner /\ ~answered.request_pending
        /\ answered.address = p.address
    BY <1>4 DEF Planes
  <1>6. issue => /\ asked \in Planes /\ asked.owner = p.owner /\ asked.request_pending
                 /\ asked.address = b.index - 1
    <2> DEFINE address == b.index - 1
    <2> HIDE DEF address
    <2>1. issue => [p EXCEPT !.request_pending = TRUE, !.address = address] \in Planes
      BY <1>2, Zenon DEF Planes, address
    <2> QED
      BY <2>1 DEF Planes, address
  <1> HIDE DEF o, free, given, asked, answered
  <1>7. /\ o \in Planes
        /\ abort => o.owner = "none" /\ ~o.request_pending
        /\ ~abort /\ p.owner = "none" /\ start => o.owner = taken /\ ~o.request_pending
        /\ ~abort /\ p.owner = "none" /\ ~start => o = p
        /\ ~abort /\ p.owner # "none" /\ b.ready => o.owner = "none" /\ ~o.request_pending
        /\ ~abort /\ p.owner # "none" /\ ~b.ready =>
             /\ o.owner = p.owner
             /\ issue => o.request_pending /\ o.address = b.index - 1
             /\ ~issue => o.address = p.address
             /\ ~issue /\ match => ~o.request_pending
             /\ ~issue /\ ~match => o = p
    BY <1>1, <1>2, <1>3, <1>5, <1>6
  <1> DEFINE pending == export_trigger(p, j) \/ (o.export_pending /\ ~export_start(e, p, j))
  <1>8. n = [o EXCEPT !.link_q = j.link, !.session_q = j.session, !.export_pending = pending]
    BY DEF PlaneStep, o
  <1>9. pending \in BOOLEAN
    OBVIOUS
  <1> HIDE DEF pending, n
  <1>10. n \in Planes
    BY <1>7, <1>8, <1>9, Zenon DEF Planes
  <1>11. /\ n.session_q = j.session /\ n.owner = o.owner /\ n.address = o.address
         /\ n.request_pending = o.request_pending
    BY <1>7, <1>8 DEF Planes
  <1>12. p.request_pending \in BOOLEAN /\ n.request_pending \in BOOLEAN
    BY <1>10 DEF Planes
  <1>13. ~abort /\ p.owner # "none" /\ ~b.ready /\ ~issue =>
           (n.request_pending <=> p.request_pending /\ ~match)
    BY <1>7, <1>11, <1>12
  <1> QED
    BY <1>7, <1>10, <1>11, <1>13 DEF n, abort, start, issue, match, taken

\* A header that is set, and the frame a builder has.
HeaderOf(e) ==
    [generation |-> e.generation, key |-> e.key, offset |-> e.offset, length |-> e.length]
SameFrame(n, b) == n.header = b.header /\ n.data = b.data

\* The builder: free, at its frame's start, within it, or with a frame to send.
LEMMA BuilderFields ==
  ASSUME NEW e \in Exporters, NEW p, NEW b \in Builders, NEW j
  PROVE  LET n == BuilderStep(e, p, b, j)
         IN  /\ n \in Builders
             /\ tx_fill_start(e, p, b, j) =>
                  n.building /\ n.index = 0 /\ ~n.queued /\ ~n.ready
                  /\ n.header = NoHeader /\ n.data = <<>>
             /\ ~tx_fill_start(e, p, b, j) /\ ~b.building =>
                  ~n.building /\ ~n.ready /\ (n.queued => b.queued /\ SameFrame(n, b))
             /\ b.building /\ ~tx_valid(e, p, j) => ~n.building /\ ~n.queued /\ ~n.ready
             /\ b.building /\ tx_valid(e, p, j) /\ p.owner = "other" =>
                  /\ SameFrame(n, b)
                  /\ \/ ~n.building /\ n.queued
                     \/ n.building /\ n.queued = b.queued /\ ~n.ready
             /\ b.building /\ tx_valid(e, p, j) /\ p.owner # "other" =>
                  \/ /\ b.index = 0 /\ n.index = 1 /\ SameFrame(n, b)
                     /\ n.building /\ n.queued = b.queued /\ ~n.ready
                  \/ /\ b.index > FragmentBytes + 1 /\ SameFrame(n, b)
                     /\ ~n.building /\ n.queued
                  \/ /\ response_matches(e, p, b, j) /\ in_payload(b)
                     /\ n.building /\ n.queued = b.queued /\ ~n.ready /\ n.index = b.index + 1
                     /\ IF e.address = 0 THEN n.header = HeaderOf(e) /\ n.data = b.data
                        ELSE n.header = b.header /\ n.data = Append(b.data, e.data)
                  \/ /\ n.building /\ n.queued = b.queued /\ ~n.ready /\ n.index = b.index
                     /\ SameFrame(n, b) /\ in_payload(b)
  <1> DEFINE n == BuilderStep(e, p, b, j)
             c == [b EXCEPT !.ready = FALSE]
             start == [BuilderOff EXCEPT !.building = TRUE]
             q == Queued(c)
             one == [c EXCEPT !.index = 1]
             next == b.index + 1
             filled == Filled(e, c)
             answered == [filled EXCEPT !.waiting = FALSE, !.index = next]
             waits == c.waiting \/ tx_payload_request(e, p, b, j)
             waiting == [c EXCEPT !.waiting = waits]
  <1>1. /\ c \in Builders /\ ~c.ready /\ SameFrame(c, b) /\ c.building = b.building
        /\ c.queued = b.queued /\ c.index = b.index
    BY DEF Builders, SameFrame
  <1>2. BuilderOff \in Builders /\ ~BuilderOff.building /\ ~BuilderOff.queued /\ ~BuilderOff.ready
    BY ExportOffTyped DEF BuilderOff
  <1>3. /\ start \in Builders /\ start.building /\ start.index = 0 /\ ~start.queued
        /\ ~start.ready /\ start.header = NoHeader /\ start.data = <<>>
    <2>1. start \in Builders
      BY <1>2, Zenon DEF Builders
    <2> QED
      BY <2>1 DEF BuilderOff
  <1> HIDE DEF c, start
  <1>4. q \in Builders /\ SameFrame(q, b) /\ ~q.building /\ q.queued
    BY <1>1 DEF Queued, Builders, SameFrame
  <1>5. /\ one \in Builders /\ SameFrame(one, b) /\ one.index = 1 /\ one.building = b.building
        /\ one.queued = b.queued /\ ~one.ready
    BY <1>1 DEF Builders, SameFrame
  <1>6. /\ filled \in Builders /\ filled.building = b.building /\ filled.queued = b.queued
        /\ ~filled.ready
        /\ IF e.address = 0 THEN filled.header = HeaderOf(e) /\ filled.data = b.data
           ELSE filled.header = b.header /\ filled.data = Append(b.data, e.data)
    <2>1. HeaderOf(e) \in Headers /\ e.data \in Bytes
      BY DEF HeaderOf, Headers, Exporters
    <2>2. c.data \in Seq(Bytes) /\ c.data = b.data /\ c.header = b.header
      BY <1>1 DEF Builders, SameFrame
    <2> DEFINE more == Append(c.data, e.data)
               head == HeaderOf(e)
    <2>3. more \in Seq(Bytes)
      BY <2>1, <2>2
    <2>4. filled = IF e.address = 0 THEN [c EXCEPT !.header = head] ELSE [c EXCEPT !.data = more]
      BY DEF Filled, HeaderOf
    <2>5. more = Append(b.data, e.data)
      BY <2>2
    <2> HIDE DEF more, head, filled
    <2>6. CASE e.address = 0
      <3>1. filled = [c EXCEPT !.header = head] /\ head \in Headers
        BY <2>1, <2>4, <2>6 DEF head
      <3> QED
        BY <1>1, <2>2, <2>6, <3>1 DEF Builders, head
    <2>7. CASE e.address # 0
      <3>1. filled = [c EXCEPT !.data = more]
        BY <2>4, <2>7
      <3>2. filled \in Builders
        BY <1>1, <2>3, <3>1, Zenon DEF Builders
      <3> QED
        BY <1>1, <2>2, <2>5, <2>7, <3>1, <3>2 DEF Builders
    <2> QED
      BY <2>6, <2>7
  <1> HIDE DEF filled
  <1>7. /\ answered \in Builders /\ answered.index = next /\ answered.building = b.building
        /\ answered.queued = b.queued /\ ~answered.ready
        /\ answered.header = filled.header /\ answered.data = filled.data
    <2>1. next \in Nat
      BY DEF Builders
    <2> HIDE DEF next
    <2> QED
      BY <1>6, <2>1 DEF Builders
  <1>8. /\ waiting \in Builders /\ SameFrame(waiting, b) /\ waiting.index = b.index
        /\ waiting.building = b.building /\ waiting.queued = b.queued /\ ~waiting.ready
    <2>1. waits \in BOOLEAN
      OBVIOUS
    <2> HIDE DEF waits
    <2> QED
      BY <1>1, <2>1 DEF Builders, SameFrame
  <1> DEFINE begins == tx_fill_start(e, p, b, j)
             valid == tx_valid(e, p, j)
             match == response_matches(e, p, b, j)
             inside == in_payload(b)
  <1>9. /\ begins => n = start
        /\ ~begins /\ ~b.building => n = BuilderOff \/ n = c
        /\ ~begins /\ b.building /\ ~valid => n = BuilderOff
        /\ ~begins /\ b.building /\ valid /\ p.owner = "other" => n = q \/ n = c
        /\ ~begins /\ b.building /\ valid /\ p.owner # "other" =>
             /\ ~inside => n = IF b.index = 0 THEN one ELSE q
             /\ inside => \/ match /\ n = answered
                          \/ n = waiting
    BY DEF BuilderStep, c, start, filled
  <1>10. begins => ~b.building
    BY DEF tx_fill_start
  <1>11. b.index \in Nat /\ (~inside /\ b.index # 0 => b.index > FragmentBytes + 1)
    BY FragmentSizes DEF in_payload, Builders
  <1> HIDE DEF n, q, one, next, answered, waits, waiting, begins, valid, match, inside
  <1>12. /\ n \in Builders
         /\ begins => n.building /\ n.index = 0 /\ ~n.queued /\ ~n.ready
                      /\ n.header = NoHeader /\ n.data = <<>>
         /\ ~begins /\ ~b.building =>
              ~n.building /\ ~n.ready /\ (n.queued => b.queued /\ SameFrame(n, b))
         /\ b.building /\ ~valid => ~n.building /\ ~n.queued /\ ~n.ready
         /\ b.building /\ valid /\ p.owner = "other" =>
              /\ SameFrame(n, b)
              /\ \/ ~n.building /\ n.queued
                 \/ n.building /\ n.queued = b.queued /\ ~n.ready
    BY <1>1, <1>2, <1>3, <1>4, <1>5, <1>7, <1>8, <1>9, <1>10
  <1>13. b.building /\ valid /\ p.owner # "other" =>
           \/ /\ b.index = 0 /\ n.index = 1 /\ SameFrame(n, b)
              /\ n.building /\ n.queued = b.queued /\ ~n.ready
           \/ /\ b.index > FragmentBytes + 1 /\ SameFrame(n, b)
              /\ ~n.building /\ n.queued
           \/ /\ match /\ inside
              /\ n.building /\ n.queued = b.queued /\ ~n.ready /\ n.index = next
              /\ IF e.address = 0 THEN n.header = HeaderOf(e) /\ n.data = b.data
                 ELSE n.header = b.header /\ n.data = Append(b.data, e.data)
           \/ /\ n.building /\ n.queued = b.queued /\ ~n.ready /\ n.index = b.index
              /\ SameFrame(n, b) /\ inside
    BY <1>4, <1>5, <1>6, <1>7, <1>8, <1>9, <1>10, <1>11
  <1> QED
    BY <1>12, <1>13 DEF n, begins, valid, match, inside, next

-----------------------------------------------------------------------------
(***************************************************************************)
(* The fragments: an invariant of the exporter, the plane and the builder  *)
(* beside that of the store.                                               *)
(***************************************************************************)
ExportShape == exporter \in Exporters /\ plane \in Planes /\ builder \in Builders
               /\ link \in BOOLEAN

\* The store scans for the exporter only while it waits for an answer.
Handshake ==
    /\ exporter.state # "SLOT_PIPELINE" \/ store.export.response =>
         store.pending = NoRequest /\ store.admin.state # "EXPORT"
    /\ store.pending # NoRequest => store.admin.state # "EXPORT"

\* The descriptor that is sent is the one the store has found.
AtWork ==
    /\ exporter.state # "IDLE" => plane.session_q /\ exporter.generation = writer.session
    /\ exporter.state = "EMIT" =>
         /\ store.export.valid /\ exporter.key = store.export.key
         /\ exporter.length = store.export.length /\ exporter.offset < exporter.length

ByteAt(e, n) == IF n < e.length THEN <<e.key, e.generation, n>> ELSE NoByte

\* The byte the builder waits for is the one the exporter reads.
ByteAsked ==
    /\ plane.owner = "descriptor" => exporter.state = "EMIT"
    /\ plane.request_pending =>
         /\ plane.owner = "descriptor" /\ builder.building /\ in_payload(builder)
         /\ plane.address = builder.index - 1 /\ exporter.address = builder.index - 1
    /\ plane.request_pending <=> exporter.payload # "IDLE"
    /\ exporter.payload = "RESPONSE" /\ exporter.address # 0 =>
         exporter.data = ByteAt(exporter, exporter.offset + exporter.address - 1)

\* A part of a fragment is of the fragment the exporter is at.
FrameBuilt ==
    /\ builder.building => plane.owner # "none" /\ ~builder.queued /\ ~builder.ready
    /\ builder.ready => builder.queued
    /\ builder.building /\ plane.owner = "other" => builder.header = NoHeader
    /\ builder.building /\ plane.owner = "descriptor" =>
         /\ builder.index <= FragmentBytes + 2
         /\ Len(builder.data) = IF builder.index < 2 THEN 0 ELSE builder.index - 2
         /\ \A i \in 1..Len(builder.data) :
               builder.data[i] = ByteAt(exporter, exporter.offset + i - 1)
         /\ builder.index >= 2 => builder.header = HeaderOf(exporter)

FInv == ExportShape /\ Handshake /\ AtWork /\ ByteAsked /\ FrameBuilt /\ FragmentWhole

\* The payload RAM's third port reads the byte of the descriptor, or none behind it.
LEMMA ReadForExport ==
  ASSUME IInv, ExportShape, AtWork
  PROVE  /\ ExportRead(exporter, store) \in Bytes
         /\ exporter.state = "EMIT" /\ exporter.payload # "IDLE" /\ exporter.address # 0 =>
              ExportRead(exporter, store) =
                ByteAt(exporter, exporter.offset + exporter.address - 1)
  <1> DEFINE e == exporter
             s == store
             n == e.offset + (e.address - 1)
  <1>1. /\ e.offset \in Nat /\ e.address \in Nat /\ s \in Stores /\ NoByte \in Bytes
        /\ s.memory \in [0..(StoreSize - 1) -> Bytes]
    BY StoreParts, ResetTypes DEF ExportShape, Exporters, IInv, Shape
  <1>2. CASE ~export_in_range(e, s)
    <2>1. ExportRead(e, s) = NoByte
      BY <1>2 DEF ExportRead
    <2>2. e.state = "EMIT" /\ e.payload # "IDLE" /\ e.address # 0 => ~(n < e.length)
      BY <1>2 DEF export_in_range, message_valid, AtWork
    <2>3. n = e.offset + e.address - 1
      BY <1>1
    <2> QED
      BY <1>1, <2>1, <2>2, <2>3 DEF ByteAt
  <1>3. CASE export_in_range(e, s)
    <2>1. e.state = "EMIT" /\ e.address # 0 /\ s.export.valid /\ n < s.export.length
      BY <1>3 DEF export_in_range, message_valid
    <2>2. /\ e.key = s.export.key /\ e.length = s.export.length
          /\ e.generation = writer.session
      BY <2>1 DEF AtWork
    <2>3. writer.phase # "clear"
      BY <2>1 DEF IInv, QuietUnlessUp
    <2>4. EntryIn(s, s.export.key, s.export.start, s.export.length)
      BY <2>1 DEF IInv, AnswersTrue, InDirectory
    <2>5. /\ s.export.start \in Nat /\ s.export.length \in Nat
          /\ s.export.start + s.export.length <= StoreSize
          /\ \A i \in 0..(s.export.length - 1) :
                s.memory[s.export.start + i] = <<s.export.key, writer.session, i>>
      BY <2>3, <2>4, EntryWhole DEF IInv
    <2>6. n \in 0..(s.export.length - 1)
      BY <1>1, <2>1, <2>5
    <2>7. s.memory[s.export.start + n] = <<s.export.key, writer.session, n>>
      BY <2>5, <2>6
    <2>8. s.export.start + e.offset + (e.address - 1) = s.export.start + n
      BY <1>1, <2>5
    <2>9. ExportRead(e, s) = <<e.key, e.generation, n>>
      BY <1>3, <2>2, <2>7, <2>8 DEF ExportRead
    <2>10. s.export.start + n \in 0..(StoreSize - 1)
      BY <2>5, <2>6, Sizes
    <2>11. ExportRead(e, s) \in Bytes
      BY <1>1, <1>3, <2>8, <2>10 DEF ExportRead
    <2>12. n = e.offset + e.address - 1 /\ n < e.length
      BY <1>1, <2>1, <2>2
    <2> QED
      BY <2>9, <2>11, <2>12 DEF ByteAt
  <1> QED
    BY <1>2, <1>3

\* A cycle of the exporter beside the store's.
Works(x, offer, j) ==
    /\ IInv /\ FInv /\ StoreCycle(x, offer)
    /\ exporter' = ExporterStep(exporter, plane, builder, j, store, x)
    /\ plane' = PlaneStep(exporter, plane, builder, j)
    /\ builder' = BuilderStep(exporter, plane, builder, j)
    /\ j.link \in BOOLEAN /\ j.session = connected /\ j.generation = writer.session
    /\ link' \in BOOLEAN

\* What is up when: a reset of the store comes with the loss of the session.
LEMMA WorkParts ==
  ASSUME NEW x, NEW offer, NEW j, Works(x, offer, j)
  PROVE  /\ Shape /\ store \in Stores /\ exporter \in Exporters /\ plane \in Planes
         /\ builder \in Builders
         /\ x.clear <=> writer.phase \in {"clear", "drop"}
         /\ x.request = export_request(exporter)
         /\ j.generation \in Nat /\ j.session \in BOOLEAN /\ j.link \in BOOLEAN
         /\ j.session <=> writer.phase = "up"
         /\ exporter.state # "IDLE" => writer.phase \in {"up", "drop"}
         /\ x.clear /\ exporter.state # "IDLE" => ~tx_valid(exporter, plane, j)
         /\ x.clear => exporter' = ExporterOff
         /\ x.clear => ~export_start(exporter, plane, j)
  <1>1. /\ Shape /\ store \in Stores /\ exporter \in Exporters /\ plane \in Planes
        /\ builder \in Builders
    BY DEF Works, IInv, Shape, FInv, ExportShape
  <1>2. /\ x.clear <=> writer.phase \in {"clear", "drop"}
        /\ x.request = export_request(exporter)
    BY DEF Works, StoreCycle, WriterSees
  <1>3. /\ j.generation \in Nat /\ j.session \in BOOLEAN /\ j.link \in BOOLEAN
        /\ j.session <=> writer.phase = "up"
    BY <1>1, WriterParts DEF Works, connected
  <1>4. exporter.state # "IDLE" => writer.phase \in {"up", "drop"}
    BY DEF Works, IInv, QuietUnlessUp
  <1>5. x.clear /\ exporter.state # "IDLE" => ~tx_valid(exporter, plane, j)
    BY <1>2, <1>3 DEF Works, FInv, AtWork, tx_valid, session_lost
  <1>6. x.clear => exporter' = ExporterOff
    BY DEF Works, ExporterStep
  <1>7. x.clear => ~export_start(exporter, plane, j)
    BY <1>2, <1>3 DEF export_start
  <1> QED
    BY <1>1, <1>2, <1>3, <1>4, <1>5, <1>6, <1>7

\* The exporter's step, with what it reads.
LEMMA WorkSteps ==
  ASSUME NEW x, NEW offer, NEW j, Works(x, offer, j), ~x.clear
  PROVE  LET e == exporter
             n == exporter'
             over == tx_abort(e, plane, j) \/ message_ready(plane, builder) \/ ~message_valid(e)
         IN  /\ n \in Exporters /\ n.data = ExportRead(e, store)
             /\ over => n.payload = "IDLE"
             /\ ~over /\ e.payload = "IDLE" =>
                  IF tx_request_issue(e, plane, builder, j)
                  THEN n.payload = "PIPELINE" /\ n.address = builder.index - 1
                  ELSE n.payload = "IDLE"
             /\ ~over /\ e.payload = "PIPELINE" =>
                  n.payload = "RESPONSE" /\ n.address = e.address
             /\ e.payload = "RESPONSE" => n.payload = "IDLE"
             /\ e.state = "SLOT_WAIT" /\ export_ready(store, x) => n.state = "SLOT_PIPELINE"
             /\ e.state = "SLOT_PIPELINE" /\ ~store.export.response => n.state = "SLOT_PIPELINE"
             /\ n.state # "IDLE" =>
                  \/ e.state # "IDLE" /\ n.generation = e.generation
                  \/ export_start(e, plane, j) /\ n.generation = j.generation
             /\ e.state = "EMIT" /\ ~message_ready(plane, builder) => SamePlace(n, e)
             /\ e.state = "EMIT" /\ n.state = "EMIT" =>
                  /\ n.key = e.key /\ n.length = e.length
                  /\ n.offset = e.offset \/ n.offset < e.length
             /\ e.state # "EMIT" /\ n.state = "EMIT" =>
                  /\ e.state = "SLOT_CHECK" /\ store.export.valid /\ store.export.length # 0
                  /\ n.key = store.export.key /\ n.length = store.export.length /\ n.offset = 0
  <1>1. /\ store \in Stores /\ exporter \in Exporters /\ plane \in Planes /\ builder \in Builders
        /\ j.generation \in Nat
    BY WorkParts
  <1>2. ExportRead(exporter, store) \in Bytes
    BY ReadForExport DEF Works, FInv
  <1>3. exporter' = ExporterStep(exporter, plane, builder, j, store, x)
    BY DEF Works
  <1> QED
    BY <1>1, <1>2, <1>3, ExporterFields

\* The exporter, the plane and the builder keep their types.
LEMMA ExportShapeNext ==
  ASSUME NEW x, NEW offer, NEW j, Works(x, offer, j)
  PROVE  ExportShape'
  <1>1. plane' \in Planes /\ builder' \in Builders /\ link' \in BOOLEAN
    <2>1. /\ exporter \in Exporters /\ plane \in Planes /\ builder \in Builders
          /\ j.link \in BOOLEAN /\ j.session \in BOOLEAN
      BY WorkParts
    <2>2. PlaneStep(exporter, plane, builder, j) \in Planes
      BY <2>1, OwnerFields
    <2>3. BuilderStep(exporter, plane, builder, j) \in Builders
      BY <2>1, BuilderFields
    <2> QED
      BY <2>2, <2>3 DEF Works
  <1>2. CASE x.clear
    BY <1>1, <1>2, WorkParts, ExportOffTyped DEF ExportShape
  <1>3. CASE ~x.clear
    BY <1>1, <1>3, WorkSteps DEF ExportShape
  <1> QED
    BY <1>2, <1>3

\* Whom the next cycle's scan is for.
LEMMA AdminStates ==
  ASSUME NEW s \in Stores, NEW x
  PROVE  LET n == AdminStep(s, x)
         IN  /\ s.admin.state = "IDLE" /\ s.capture.alloc_pending => n.state = "CAPTURE"
             /\ s.admin.state = "IDLE" /\ ~s.capture.alloc_pending /\ s.pending = NoRequest =>
                  n.state = "IDLE"
             /\ s.admin.state # "IDLE" /\ AdminEnds(s, x) => n.state = "IDLE"
             /\ s.admin.state # "IDLE" /\ ~AdminEnds(s, x) => n.state = s.admin.state
  <1> DEFINE n == AdminStep(s, x)
  <1>1. s.admin.state = "IDLE" /\ s.capture.alloc_pending => n.state = "CAPTURE"
    <2> SUFFICES ASSUME s.admin.state = "IDLE", s.capture.alloc_pending
                 PROVE  n.state = "CAPTURE"
      OBVIOUS
    <2>1. n = [NoAdmin EXCEPT !.state = "CAPTURE", !.key = s.capture.key]
      BY AdminCases
    <2> QED
      BY <2>1 DEF NoAdmin
  <1>2. s.admin.state = "IDLE" /\ ~s.capture.alloc_pending /\ s.pending = NoRequest =>
          n.state = "IDLE"
    BY AdminCases
  <1>3. s.admin.state # "IDLE" /\ AdminEnds(s, x) => n.state = "IDLE"
    <2> SUFFICES ASSUME s.admin.state # "IDLE", AdminEnds(s, x) PROVE n.state = "IDLE"
      OBVIOUS
    <2>1. n = NoAdmin
      BY AdminCases
    <2> QED
      BY <2>1 DEF NoAdmin
  <1>4. s.admin.state # "IDLE" /\ ~AdminEnds(s, x) => n.state = s.admin.state
    BY AdminCases, LookedFields
  <1> QED
    BY <1>1, <1>2, <1>3, <1>4

\* The store is asked once, and answers once.
LEMMA HandshakeNext ==
  ASSUME NEW x, NEW offer, NEW j, Works(x, offer, j)
  PROVE  Handshake'
  <1>1. Shape /\ StoreCycle(x, offer) /\ store \in Stores
    BY WorkParts DEF Works
  <1>2. CASE x.clear
    <2>1. store'.pending = NoRequest /\ store'.admin = NoAdmin
      BY <1>1, <1>2, WorkParts, ClearCycle
    <2> QED
      BY <2>1 DEF Handshake, NoAdmin
  <1>3. CASE ~x.clear
    <2>1. /\ store'.admin = AdminStep(store, x) /\ store'.pending = PendingStep(store, x)
          /\ store'.export = ExportStep(store, x)
      BY <1>1, <1>3, WorkParts, ScanCycle
    <2>2. store.export \in Exports /\ store.admin \in Admins
      BY <1>1, StoreParts
    <2>3. CASE store.admin.state = "EXPORT"
      <3>1. store.pending = NoRequest /\ exporter.state = "SLOT_PIPELINE" /\ ~store.export.response
        BY <2>3 DEF Works, FInv, Handshake
      <3>2. x.request = NoRequest
        BY <3>1, WorkParts DEF export_request
      <3>3. store'.pending = NoRequest
        BY <2>1, <3>1, <3>2 DEF PendingStep
      <3>4. exporter'.state = "SLOT_PIPELINE"
        BY <1>3, <3>1, WorkSteps
      <3>5. AdminEnds(store, x) => store'.admin.state # "EXPORT"
        BY <1>1, <2>1, <2>3, AdminStates
      <3>6. ~AdminEnds(store, x) => ~store'.export.response
        BY <2>1, <2>2, <2>3 DEF ExportStep, Exports
      <3> QED
        BY <3>3, <3>4, <3>5, <3>6 DEF Handshake
    <2>4. CASE store.admin.state # "EXPORT"
      <3>1. ~store'.export.response
        BY <2>1, <2>2, <2>4 DEF ExportStep, Exports
      <3>2. CASE store.pending # NoRequest
        <4>1. exporter.state = "SLOT_PIPELINE" /\ ~store.export.response
          BY <3>2 DEF Works, FInv, Handshake
        <4>2. exporter'.state = "SLOT_PIPELINE"
          BY <1>3, <4>1, WorkSteps
        <4>3. x.request = NoRequest
          BY <4>1, WorkParts DEF export_request
        <4>4. store'.pending # NoRequest => store'.admin.state # "EXPORT"
          <5> SUFFICES ASSUME store'.pending # NoRequest PROVE store'.admin.state # "EXPORT"
            OBVIOUS
          <5>1. ~(store.admin.state = "IDLE" /\ ~store.capture.alloc_pending)
            BY <2>1, <4>3 DEF PendingStep
          <5> QED
            BY <1>1, <2>1, <2>4, <5>1, AdminStates
        <4> QED
          BY <3>1, <4>2, <4>4 DEF Handshake
      <3>3. CASE store.pending = NoRequest
        <4>1. store'.admin.state # "EXPORT"
          BY <1>1, <2>1, <2>4, <3>3, AdminStates
        <4>2. exporter'.state # "SLOT_PIPELINE" => store'.pending = NoRequest
          <5> SUFFICES ASSUME exporter'.state # "SLOT_PIPELINE" PROVE store'.pending = NoRequest
            OBVIOUS
          <5>1. export_ready(store, x)
            BY <1>3, <2>4, <3>3 DEF export_ready
          <5>2. exporter.state # "SLOT_WAIT"
            BY <1>3, <5>1, WorkSteps
          <5>3. x.request = NoRequest
            BY <5>2, WorkParts DEF export_request
          <5> QED
            BY <2>1, <3>3, <5>3 DEF PendingStep
        <4> QED
          BY <3>1, <4>1, <4>2 DEF Handshake
      <3> QED
        BY <3>2, <3>3
    <2> QED
      BY <2>3, <2>4
  <1> QED
    BY <1>2, <1>3

\* The descriptor that is sent stays the one that was found.
LEMMA AtWorkNext ==
  ASSUME NEW x, NEW offer, NEW j, Works(x, offer, j)
  PROVE  AtWork'
  <1>1. CASE x.clear
    <2>1. exporter'.state = "IDLE"
      BY <1>1, WorkParts DEF ExporterOff
    <2> QED
      BY <2>1 DEF AtWork
  <1>2. CASE ~x.clear
    <2> SUFFICES ASSUME exporter'.state # "IDLE" PROVE AtWork'
      BY DEF AtWork
    <2>1. \/ exporter.state # "IDLE" /\ exporter'.generation = exporter.generation
          \/ /\ export_start(exporter, plane, j) /\ exporter.state = "IDLE"
             /\ exporter'.generation = j.generation
      BY <1>2, WorkSteps DEF export_start
    <2>2. writer.phase = "up"
      BY <1>2, <2>1, WorkParts DEF export_start
    <2>3. writer'.session = writer.session
      <3>1. WriterNext(offer)
        BY DEF Works, StoreCycle
      <3> QED
        BY <2>2, <3>1 DEF WriterNext, Unplugged
    <2>4. plane'.session_q
      <3>1. PlaneStep(exporter, plane, builder, j).session_q = j.session
        BY OwnerFields, WorkParts
      <3> QED
        BY <2>2, <3>1, WorkParts DEF Works
    <2>5. exporter'.generation = writer'.session
      BY <2>1, <2>3 DEF Works, FInv, AtWork
    <2>6. exporter'.state = "EMIT" =>
            /\ store'.export.valid /\ exporter'.key = store'.export.key
            /\ exporter'.length = store'.export.length /\ exporter'.offset < exporter'.length
      <3> SUFFICES ASSUME exporter'.state = "EMIT"
                   PROVE  /\ store'.export.valid /\ exporter'.key = store'.export.key
                          /\ exporter'.length = store'.export.length
                          /\ exporter'.offset < exporter'.length
        OBVIOUS
      <3>1. exporter.state \in {"SLOT_CHECK", "EMIT"} /\ store.export.valid
        BY <1>2, WorkSteps DEF Works, FInv, AtWork
      <3>2. store.admin.state # "EXPORT"
        BY <3>1 DEF Works, FInv, Handshake
      <3>3. /\ store'.export.valid /\ store'.export.key = store.export.key
            /\ store'.export.length = store.export.length
        <4>1. Shape /\ StoreCycle(x, offer) /\ IInv /\ store.export \in Exports
          BY WorkParts, StoreParts DEF Works
        <4>2. ~capture_commit_ok(store, x)
          BY <2>2, <4>1, StillCycle DEF IInv
        <4>3. store'.export = ExportStep(store, x)
          BY <2>2, <4>1, ScanCycle
        <4>4. ExportStep(store, x) = [store.export EXCEPT !.response = FALSE,
                                         !.valid = @ /\ ~capture_commit_ok(store, x)]
          BY <3>2 DEF ExportStep
        <4> QED
          BY <3>1, <4>1, <4>2, <4>3, <4>4 DEF Exports
      <3>4. CASE exporter.state = "EMIT"
        <4>1. /\ exporter.key = store.export.key /\ exporter.length = store.export.length
              /\ exporter.offset < exporter.length
          BY <3>4 DEF Works, FInv, AtWork
        <4>2. /\ exporter'.key = exporter.key /\ exporter'.length = exporter.length
              /\ exporter'.offset = exporter.offset \/ exporter'.offset < exporter.length
          BY <1>2, <3>4, WorkSteps
        <4> QED
          BY <3>3, <4>1, <4>2
      <3>5. CASE exporter.state # "EMIT"
        <4>1. /\ store.export.length # 0 /\ exporter'.key = store.export.key
              /\ exporter'.length = store.export.length /\ exporter'.offset = 0
          BY <1>2, <3>5, WorkSteps
        <4>2. store.export.length \in Nat
          BY WorkParts, StoreParts DEF Exports
        <4> QED
          BY <3>3, <4>1, <4>2
      <3> QED
        BY <3>4, <3>5
    <2> QED
      BY <2>4, <2>5, <2>6 DEF AtWork
  <1> QED
    BY <1>1, <1>2

\* While a fragment has the builder the exporter stays where it is.
LEMMA OwnerHolds ==
  ASSUME NEW x, NEW offer, NEW j, Works(x, offer, j), plane'.owner = "descriptor"
  PROVE  /\ ~x.clear /\ tx_valid(exporter, plane, j) /\ exporter.state = "EMIT"
         /\ ~message_ready(plane, builder) /\ SamePlace(exporter', exporter)
         /\ \/ plane.owner = "none" /\ tx_fill_start(exporter, plane, builder, j)
            \/ plane.owner = "descriptor" /\ ~builder.ready
  <1>1. plane' = PlaneStep(exporter, plane, builder, j)
    BY DEF Works
  <1>2. plane \in Planes /\ builder \in Builders /\ j.link \in BOOLEAN /\ j.session \in BOOLEAN
    BY WorkParts
  <1>3. /\ ~tx_abort(exporter, plane, j)
        /\ \/ /\ plane.owner = "none" /\ ~j.other
              /\ tx_fill_start(exporter, plane, builder, j)
           \/ plane.owner = "descriptor" /\ ~builder.ready
    BY <1>1, <1>2, OwnerFields
  <1>4. tx_valid(exporter, plane, j)
    BY <1>3 DEF tx_abort, tx_fill_start
  <1>5. exporter.state = "EMIT"
    BY <1>3, <1>4 DEF tx_valid, message_valid
  <1>6. ~message_ready(plane, builder)
    BY <1>3 DEF message_ready
  <1>7. ~x.clear
    BY <1>4, <1>5, WorkParts
  <1>8. SamePlace(exporter', exporter)
    BY <1>5, <1>6, <1>7, WorkSteps
  <1> QED
    BY <1>3, <1>4, <1>5, <1>6, <1>7, <1>8

\* A byte that is asked for: who asks, and where the builder stays for it.
LEMMA ByteIssued ==
  ASSUME NEW x, NEW offer, NEW j, Works(x, offer, j), plane'.request_pending
  PROVE  /\ plane'.owner = "descriptor" /\ plane.owner = "descriptor"
         /\ builder'.building /\ builder'.index = builder.index /\ in_payload(builder)
         /\ ~(tx_abort(exporter, plane, j) \/ message_ready(plane, builder)
                \/ ~message_valid(exporter))
         /\ \/ /\ tx_request_issue(exporter, plane, builder, j)
               /\ plane'.address = builder.index - 1 /\ ~plane.request_pending
            \/ /\ plane.request_pending /\ plane'.address = plane.address
               /\ exporter.payload = "PIPELINE"
  <1> DEFINE e == exporter
             p == plane
             b == builder
             issue == tx_request_issue(e, p, b, j)
             match == response_matches(e, p, b, j)
  <1>1. /\ p \in Planes /\ b \in Builders /\ e \in Exporters
        /\ j.link \in BOOLEAN /\ j.session \in BOOLEAN
        /\ plane' = PlaneStep(e, p, b, j) /\ builder' = BuilderStep(e, p, b, j)
    BY WorkParts DEF Works
  <1>2. p.request_pending => p.owner = "descriptor"
    BY DEF Works, FInv, ByteAsked
  <1>3. ~tx_abort(e, p, j) /\ p.owner # "none" /\ ~b.ready /\ plane'.owner = p.owner
    BY <1>1, <1>2, OwnerFields
  <1>4. \/ issue /\ plane'.address = b.index - 1
        \/ ~issue /\ p.request_pending /\ ~match /\ plane'.address = p.address
    BY <1>1, <1>3, OwnerFields
  <1>5. issue => /\ p.owner = "descriptor" /\ b.building /\ in_payload(b) /\ ~p.request_pending
    BY DEF tx_request_issue, tx_payload_request
  <1>6. p.request_pending =>
          /\ p.owner = "descriptor" /\ b.building /\ in_payload(b)
          /\ e.address = b.index - 1 /\ p.address = b.index - 1 /\ e.payload # "IDLE"
    BY DEF Works, FInv, ByteAsked
  <1>7. p.owner = "descriptor" /\ b.building /\ in_payload(b)
    BY <1>4, <1>5, <1>6
  <1>8. tx_valid(e, p, j) /\ message_valid(e)
    BY <1>3, <1>7 DEF tx_abort, tx_valid
  <1>9. ~match
    BY <1>4, <1>5 DEF response_matches
  <1>10. builder'.building /\ builder'.index = b.index
    <2>1. b.index # 0 /\ ~(b.index > FragmentBytes + 1)
      BY <1>1, <1>7, FragmentSizes DEF in_payload, Builders
    <2> QED
      BY <1>1, <1>7, <1>8, <1>9, <2>1, BuilderFields
  <1>11. ~message_ready(p, b)
    BY <1>3 DEF message_ready
  <1>12. ~issue => p.request_pending /\ e.payload = "PIPELINE" /\ plane'.address = p.address
    <2> SUFFICES ASSUME ~issue
                 PROVE  p.request_pending /\ e.payload = "PIPELINE" /\ plane'.address = p.address
      OBVIOUS
    <2>1. p.request_pending /\ plane'.address = p.address
      BY <1>4
    <2>2. e.payload # "RESPONSE"
      BY <1>3, <1>6, <1>7, <1>8, <1>9, <2>1 DEF response_matches
    <2>3. e.payload # "IDLE"
      BY <1>6, <2>1
    <2> QED
      BY <1>1, <2>1, <2>2, <2>3 DEF Exporters
  <1> QED
    BY <1>3, <1>4, <1>5, <1>7, <1>8, <1>10, <1>11, <1>12

\* The byte the builder waits for stays the one the exporter reads.
LEMMA ByteAskedNext ==
  ASSUME NEW x, NEW offer, NEW j, Works(x, offer, j)
  PROVE  ByteAsked'
  <1> DEFINE e == exporter
             p == plane
             b == builder
             over == tx_abort(e, p, j) \/ message_ready(p, b) \/ ~message_valid(e)
  <1>1. plane'.owner = "descriptor" => exporter'.state = "EMIT"
    BY OwnerHolds DEF SamePlace
  <1>2. ASSUME plane'.request_pending
        PROVE  /\ plane'.owner = "descriptor" /\ builder'.building /\ in_payload(builder')
               /\ plane'.address = builder'.index - 1 /\ exporter'.address = builder'.index - 1
               /\ exporter'.payload # "IDLE"
    <2>1. /\ plane'.owner = "descriptor" /\ builder'.building /\ builder'.index = b.index
          /\ in_payload(b) /\ ~over
          /\ \/ /\ tx_request_issue(e, p, b, j) /\ plane'.address = b.index - 1
                /\ ~p.request_pending
             \/ p.request_pending /\ plane'.address = p.address /\ e.payload = "PIPELINE"
      BY <1>2, ByteIssued
    <2>2. ~x.clear
      BY <2>1, OwnerHolds
    <2>3. in_payload(builder')
      BY <2>1 DEF in_payload
    <2>4. CASE tx_request_issue(e, p, b, j) /\ plane'.address = b.index - 1
               /\ ~p.request_pending
      <3>1. e.payload = "IDLE"
        BY <2>4 DEF Works, FInv, ByteAsked
      <3>2. exporter'.payload = "PIPELINE" /\ exporter'.address = b.index - 1
        BY <2>1, <2>2, <2>4, <3>1, WorkSteps
      <3> QED
        BY <2>1, <2>3, <2>4, <3>2
    <2>5. CASE p.request_pending /\ plane'.address = p.address /\ e.payload = "PIPELINE"
      <3>1. exporter'.payload = "RESPONSE" /\ exporter'.address = e.address
        BY <2>1, <2>2, <2>5, WorkSteps
      <3>2. p.address = b.index - 1 /\ e.address = b.index - 1
        BY <2>5 DEF Works, FInv, ByteAsked
      <3> QED
        BY <2>1, <2>3, <2>5, <3>1, <3>2
    <2> QED
      BY <2>1, <2>4, <2>5
  <1>3. ASSUME exporter'.payload # "IDLE" PROVE plane'.request_pending
    <2>1. ~x.clear
      BY <1>3, WorkParts DEF ExporterOff
    <2>2. ~over
      BY <1>3, <2>1, WorkSteps
    <2>3. /\ p \in Planes /\ b \in Builders /\ e \in Exporters
          /\ j.link \in BOOLEAN /\ j.session \in BOOLEAN
          /\ plane' = PlaneStep(e, p, b, j)
      BY WorkParts DEF Works
    <2>4. e.payload # "RESPONSE"
      BY <1>3, <2>1, WorkSteps
    <2>5. CASE e.payload = "IDLE"
      <3>1. tx_request_issue(e, p, b, j)
        BY <1>3, <2>1, <2>2, <2>5, WorkSteps
      <3>2. p.owner = "descriptor" /\ ~b.ready
        BY <2>2, <3>1 DEF tx_request_issue, message_ready
      <3> QED
        BY <2>2, <2>3, <3>1, <3>2, OwnerFields
    <2>6. CASE e.payload = "PIPELINE"
      <3>1. p.request_pending /\ p.owner = "descriptor"
        BY <2>6 DEF Works, FInv, ByteAsked
      <3>2. ~b.ready
        BY <2>2, <3>1 DEF message_ready
      <3>3. ~response_matches(e, p, b, j)
        BY <2>6 DEF response_matches
      <3> QED
        BY <2>2, <2>3, <3>1, <3>2, <3>3, OwnerFields
    <2> QED
      BY <2>3, <2>4, <2>5, <2>6 DEF Exporters
  <1>4. ASSUME exporter'.payload = "RESPONSE", exporter'.address # 0
        PROVE  exporter'.data = ByteAt(exporter', exporter'.offset + exporter'.address - 1)
    <2>1. ~x.clear
      BY <1>4, WorkParts DEF ExporterOff
    <2>2. ~over
      BY <1>4, <2>1, WorkSteps
    <2>3. e.payload = "PIPELINE"
      <3>1. e.payload # "IDLE"
        BY <1>4, <2>1, <2>2, WorkSteps
      <3>2. e.payload # "RESPONSE"
        BY <1>4, <2>1, WorkSteps
      <3> QED
        BY <3>1, <3>2, WorkParts DEF Exporters
    <2>4. exporter'.address = e.address /\ exporter'.data = ExportRead(e, store)
      BY <2>1, <2>2, <2>3, WorkSteps
    <2>5. e.state = "EMIT"
      BY <2>2 DEF message_valid
    <2>6. ExportRead(e, store) = ByteAt(e, e.offset + e.address - 1)
      BY <1>4, <2>3, <2>4, <2>5, ReadForExport DEF Works, FInv
    <2>7. SamePlace(exporter', e)
      BY <2>1, <2>2, <2>5, WorkSteps
    <2> QED
      BY <2>4, <2>6, <2>7 DEF SamePlace, ByteAt
  <1> QED
    BY <1>1, <1>2, <1>3, <1>4 DEF ByteAsked

\* A frame that is being built goes on, or is given up or queued.
LEMMA BuildingStays ==
  ASSUME NEW x, NEW offer, NEW j, Works(x, offer, j), builder'.building
  PROVE  /\ tx_valid(exporter, plane, j)
         /\ \/ tx_fill_start(exporter, plane, builder, j) /\ plane'.owner # "none"
            \/ /\ builder.building /\ plane.owner # "none" /\ plane'.owner = plane.owner
               /\ ~builder.queued /\ ~builder.ready
  <1> DEFINE e == exporter
             p == plane
             b == builder
  <1>1. /\ p \in Planes /\ b \in Builders /\ e \in Exporters
        /\ j.link \in BOOLEAN /\ j.session \in BOOLEAN
        /\ plane' = PlaneStep(e, p, b, j) /\ builder' = BuilderStep(e, p, b, j)
    BY WorkParts DEF Works
  <1>2. FrameBuilt
    BY DEF Works, FInv
  <1>3. CASE tx_fill_start(e, p, b, j)
    <2>1. tx_valid(e, p, j) /\ ~b.queued
      BY <1>3 DEF tx_fill_start
    <2>2. ~b.ready /\ ~tx_abort(e, p, j)
      BY <1>2, <2>1 DEF FrameBuilt, tx_abort
    <2>3. plane'.owner # "none"
      BY <1>1, <1>3, <2>2, OwnerFields
    <2> QED
      BY <1>3, <2>1, <2>3
  <1>4. CASE ~tx_fill_start(e, p, b, j)
    <2>1. b.building /\ tx_valid(e, p, j)
      BY <1>1, <1>4, BuilderFields
    <2>2. p.owner # "none" /\ ~b.queued /\ ~b.ready /\ ~tx_abort(e, p, j)
      BY <1>2, <2>1 DEF FrameBuilt, tx_abort
    <2>3. plane'.owner = p.owner
      BY <1>1, <2>2, OwnerFields
    <2> QED
      BY <2>1, <2>2, <2>3
  <1> QED
    BY <1>3, <1>4

\* The next byte of a fragment, or its header.
LEMMA FragmentGrows ==
  ASSUME NEW x, NEW offer, NEW j, Works(x, offer, j), builder'.building,
         plane'.owner = "descriptor"
  PROVE  /\ builder'.index <= FragmentBytes + 2
         /\ Len(builder'.data) = IF builder'.index < 2 THEN 0 ELSE builder'.index - 2
         /\ \A i \in 1..Len(builder'.data) :
               builder'.data[i] = ByteAt(exporter, exporter.offset + i - 1)
         /\ builder'.index >= 2 => builder'.header = HeaderOf(exporter)
  <1> DEFINE e == exporter
             p == plane
             b == builder
             n == builder'
  <1>1. /\ p \in Planes /\ b \in Builders /\ e \in Exporters
        /\ n = BuilderStep(e, p, b, j) /\ tx_valid(e, p, j)
    BY WorkParts, BuildingStays DEF Works
  <1>2. FragmentBytes \in Nat /\ FragmentBytes >= 1 /\ b.index \in Nat /\ b.data \in Seq(Bytes)
    BY <1>1, FragmentSizes DEF Builders
  <1> HIDE DEF n
  <1>3. n.index \in Nat
    BY <1>1, BuilderFields DEF Builders
  <1>4. CASE tx_fill_start(e, p, b, j)
    <2>1. n = [BuilderOff EXCEPT !.building = TRUE]
      BY <1>1, <1>4 DEF BuilderStep
    <2>2. n.index = 0 /\ n.data = <<>>
      BY <2>1 DEF BuilderOff
    <2>3. Len(n.data) = 0
      BY <2>2
    <2> QED
      BY <1>2, <1>3, <2>2, <2>3 DEF n
  <1>5. CASE ~tx_fill_start(e, p, b, j)
    <2>1. b.building /\ p.owner = "descriptor"
      BY <1>5, BuildingStays
    <2>2. /\ b.index <= FragmentBytes + 2
          /\ Len(b.data) = IF b.index < 2 THEN 0 ELSE b.index - 2
          /\ \A i \in 1..Len(b.data) : b.data[i] = ByteAt(e, e.offset + i - 1)
          /\ b.index >= 2 => b.header = HeaderOf(e)
      BY <2>1 DEF Works, FInv, FrameBuilt
    <2>3. \/ b.index = 0 /\ n.index = 1 /\ SameFrame(n, b)
          \/ /\ response_matches(e, p, b, j) /\ in_payload(b) /\ n.index = b.index + 1
             /\ IF e.address = 0 THEN n.header = HeaderOf(e) /\ n.data = b.data
                ELSE n.header = b.header /\ n.data = Append(b.data, e.data)
          \/ n.index = b.index /\ SameFrame(n, b)
      <3>1. n.building /\ p.owner # "other"
        BY <2>1 DEF n
      <3>2. \/ b.index = 0 /\ n.index = 1 /\ SameFrame(n, b)
            \/ ~n.building
            \/ /\ response_matches(e, p, b, j) /\ in_payload(b) /\ n.index = b.index + 1
               /\ IF e.address = 0 THEN n.header = HeaderOf(e) /\ n.data = b.data
                  ELSE n.header = b.header /\ n.data = Append(b.data, e.data)
            \/ n.index = b.index /\ SameFrame(n, b)
        BY <1>1, <1>3, <2>1, <3>1, BuilderFields, SMTT(60)
      <3> QED
        BY <3>1, <3>2
    <2>4. CASE b.index = 0 /\ n.index = 1 /\ SameFrame(n, b)
      BY <1>2, <2>2, <2>4 DEF SameFrame, n
    <2>5. CASE n.index = b.index /\ SameFrame(n, b)
      BY <2>2, <2>5 DEF SameFrame, n
    <2>6. CASE /\ response_matches(e, p, b, j) /\ in_payload(b) /\ n.index = b.index + 1
               /\ IF e.address = 0 THEN n.header = HeaderOf(e) /\ n.data = b.data
                  ELSE n.header = b.header /\ n.data = Append(b.data, e.data)
      <3>1. b.index \in 1..(FragmentBytes + 1)
        BY <2>6 DEF in_payload
      <3>2. e.address = b.index - 1 /\ e.payload = "RESPONSE"
        BY <2>6 DEF Works, FInv, ByteAsked, response_matches
      <3>3. CASE e.address = 0
        <4>1. b.index = 1 /\ n.index = 2 /\ n.header = HeaderOf(e) /\ n.data = b.data
          BY <1>2, <2>6, <3>2, <3>3
        <4> QED
          BY <1>2, <2>2, <4>1 DEF n
      <3>4. CASE e.address # 0
        <4>1. b.index >= 2 /\ n.header = b.header /\ n.data = Append(b.data, e.data)
              /\ n.index = b.index + 1
          BY <1>2, <2>6, <3>1, <3>2, <3>4
        <4>2. e.data = ByteAt(e, e.offset + e.address - 1)
          BY <3>2, <3>4 DEF Works, FInv, ByteAsked
        <4>3. /\ Len(b.data) = b.index - 2 /\ Len(n.data) = n.index - 2
              /\ n.data[Len(b.data) + 1] = e.data
              /\ \A i \in 1..Len(b.data) : n.data[i] = b.data[i]
          BY <1>2, <2>2, <4>1
        <4>4. \A i \in 1..Len(n.data) : n.data[i] = ByteAt(e, e.offset + i - 1)
          <5> SUFFICES ASSUME NEW i \in 1..Len(n.data)
                       PROVE  n.data[i] = ByteAt(e, e.offset + i - 1)
            OBVIOUS
          <5>1. CASE i \in 1..Len(b.data)
            BY <2>2, <4>3, <5>1
          <5>2. CASE i \notin 1..Len(b.data)
            <6>1. i = Len(b.data) + 1 /\ i = e.address
              BY <1>2, <3>1, <3>2, <4>1, <4>3, <5>2
            <6> QED
              BY <4>2, <4>3, <6>1
          <5> QED
            BY <5>1, <5>2
        <4>5. n.index <= FragmentBytes + 2 /\ n.header = HeaderOf(e) /\ ~(n.index < 2)
          BY <1>2, <2>2, <3>1, <4>1
        <4> QED
          BY <4>3, <4>4, <4>5 DEF n
      <3> QED
        BY <3>3, <3>4
    <2> QED
      BY <2>3, <2>4, <2>5, <2>6
  <1> QED
    BY <1>4, <1>5

\* A part of a fragment stays of the fragment the exporter is at.
LEMMA FrameBuiltNext ==
  ASSUME NEW x, NEW offer, NEW j, Works(x, offer, j)
  PROVE  FrameBuilt'
  <1> DEFINE e == exporter
             p == plane
             b == builder
             n == builder'
  <1>1. /\ p \in Planes /\ b \in Builders /\ e \in Exporters /\ FrameBuilt
        /\ n = BuilderStep(e, p, b, j)
    BY WorkParts DEF Works, FInv
  <1> HIDE DEF n
  <1>2. n.building => plane'.owner # "none" /\ ~n.queued /\ ~n.ready
    <2> SUFFICES ASSUME n.building PROVE plane'.owner # "none" /\ ~n.queued /\ ~n.ready
      OBVIOUS
    <2>1. CASE tx_fill_start(e, p, b, j)
      BY <1>1, <2>1, BuilderFields, BuildingStays DEF n
    <2>2. CASE ~tx_fill_start(e, p, b, j)
      <3>1. /\ b.building /\ ~b.queued /\ tx_valid(e, p, j)
            /\ p.owner # "none" /\ plane'.owner = p.owner
        BY <2>2, BuildingStays DEF n
      <3> QED
        BY <1>1, <3>1, BuilderFields
    <2> QED
      BY <2>1, <2>2
  <1>3. n.ready => n.queued
    <2>1. CASE b.building
      <3>1. CASE ~tx_valid(e, p, j)
        BY <1>1, <2>1, <3>1, BuilderFields
      <3>2. CASE tx_valid(e, p, j) /\ p.owner = "other"
        BY <1>1, <2>1, <3>2, BuilderFields
      <3>3. CASE tx_valid(e, p, j) /\ p.owner # "other"
        BY <1>1, <2>1, <3>3, BuilderFields
      <3> QED
        BY <3>1, <3>2, <3>3
    <2>2. CASE ~b.building
      BY <1>1, <2>2, BuilderFields
    <2> QED
      BY <2>1, <2>2
  <1>4. n.building /\ plane'.owner = "other" => n.header = NoHeader
    <2> SUFFICES ASSUME n.building, plane'.owner = "other" PROVE n.header = NoHeader
      OBVIOUS
    <2>1. CASE tx_fill_start(e, p, b, j)
      BY <1>1, <2>1, BuilderFields
    <2>2. CASE ~tx_fill_start(e, p, b, j)
      <3>1. b.building /\ tx_valid(e, p, j) /\ p.owner = "other"
        BY <2>2, BuildingStays DEF n
      <3>2. SameFrame(n, b)
        BY <1>1, <3>1, BuilderFields
      <3> QED
        BY <1>1, <3>1, <3>2 DEF SameFrame, FrameBuilt
    <2> QED
      BY <2>1, <2>2
  <1>5. ASSUME n.building, plane'.owner = "descriptor"
        PROVE  /\ n.index <= FragmentBytes + 2
               /\ Len(n.data) = IF n.index < 2 THEN 0 ELSE n.index - 2
               /\ \A i \in 1..Len(n.data) : n.data[i] = ByteAt(exporter', exporter'.offset + i - 1)
               /\ n.index >= 2 => n.header = HeaderOf(exporter')
    <2>1. SamePlace(exporter', e)
      BY <1>5, OwnerHolds
    <2>2. /\ HeaderOf(exporter') = HeaderOf(e) /\ exporter'.offset = e.offset
          /\ \A k : ByteAt(exporter', k) = ByteAt(e, k)
      BY <2>1 DEF SamePlace, HeaderOf, ByteAt
    <2>3. /\ n.index <= FragmentBytes + 2
          /\ Len(n.data) = IF n.index < 2 THEN 0 ELSE n.index - 2
          /\ \A i \in 1..Len(n.data) : n.data[i] = ByteAt(e, e.offset + i - 1)
          /\ n.index >= 2 => n.header = HeaderOf(e)
      BY <1>5, FragmentGrows DEF n
    <2> QED
      BY <2>2, <2>3
  <1> QED
    BY <1>2, <1>3, <1>4, <1>5 DEF FrameBuilt, n

\* A fragment that is queued is whole, and stays so until the link has taken it.
LEMMA FragmentWholeNext ==
  ASSUME NEW x, NEW offer, NEW j, Works(x, offer, j)
  PROVE  FragmentWhole'
  <1> DEFINE e == exporter
             p == plane
             b == builder
             n == builder'
             Data(f) == [i \in 1..FragmentBytes |->
                           IF f.header.offset + i <= f.header.length
                           THEN <<f.header.key, f.header.generation, f.header.offset + i - 1>>
                           ELSE NoByte]
  <1>1. /\ p \in Planes /\ b \in Builders /\ e \in Exporters /\ FrameBuilt /\ FragmentWhole
        /\ n = BuilderStep(e, p, b, j)
    BY WorkParts DEF Works, FInv
  <1> HIDE DEF n
  <1> SUFFICES ASSUME n.queued, n.header # NoHeader PROVE n.data = Data(n)
    BY DEF FragmentWhole, n
  <1>2. ~tx_fill_start(e, p, b, j)
    BY <1>1, BuilderFields
  <1>3. CASE ~b.building
    <2>1. b.queued /\ n.header = b.header /\ n.data = b.data
      BY <1>1, <1>2, <1>3, BuilderFields DEF SameFrame
    <2>2. b.data = Data(b)
      BY <1>1, <2>1 DEF FragmentWhole
    <2> QED
      BY <2>1, <2>2
  <1>4. CASE b.building
    <2>1. tx_valid(e, p, j)
      BY <1>1, <1>4, BuilderFields
    <2>2. p.owner # "none" /\ ~b.queued
      BY <1>1, <1>4 DEF FrameBuilt
    <2>3. p.owner # "other"
      <3> SUFFICES ASSUME p.owner = "other" PROVE FALSE
        OBVIOUS
      <3>1. SameFrame(n, b)
        BY <1>1, <1>4, <2>1, BuilderFields
      <3> QED
        BY <1>1, <1>4, <3>1 DEF FrameBuilt, SameFrame
    <2>4. p.owner = "descriptor"
      BY <1>1, <2>2, <2>3 DEF Planes
    <2>5. b.index > FragmentBytes + 1 /\ SameFrame(n, b)
      BY <1>1, <1>4, <2>1, <2>2, <2>3, BuilderFields
    <2>6. /\ b.index <= FragmentBytes + 2
          /\ Len(b.data) = IF b.index < 2 THEN 0 ELSE b.index - 2
          /\ \A i \in 1..Len(b.data) : b.data[i] = ByteAt(e, e.offset + i - 1)
          /\ b.index >= 2 => b.header = HeaderOf(e)
      BY <1>1, <1>4, <2>4 DEF FrameBuilt
    <2>7. /\ FragmentBytes \in Nat /\ FragmentBytes >= 1 /\ b.index \in Nat
          /\ e.offset \in Nat /\ e.length \in Nat /\ b.data \in Seq(Bytes)
      BY <1>1, FragmentSizes DEF Builders, Exporters
    <2>8. Len(b.data) = FragmentBytes /\ b.header = HeaderOf(e)
      BY <2>5, <2>6, <2>7
    <2>9. /\ n.data = b.data /\ n.header.offset = e.offset /\ n.header.length = e.length
          /\ n.header.key = e.key /\ n.header.generation = e.generation
      BY <2>5, <2>8 DEF SameFrame, HeaderOf
    <2>10. ASSUME NEW i \in 1..FragmentBytes PROVE b.data[i] = Data(n)[i]
      <3>1. b.data[i] = ByteAt(e, e.offset + i - 1)
        BY <2>6, <2>8
      <3>2. e.offset + i <= e.length <=> e.offset + i - 1 < e.length
        BY <2>7
      <3> QED
        BY <2>9, <3>1, <3>2 DEF ByteAt
    <2>11. b.data = [i \in 1..FragmentBytes |-> b.data[i]]
      BY <2>7, <2>8
    <2> HIDE DEF Data
    <2>12. [i \in 1..FragmentBytes |-> b.data[i]] = [i \in 1..FragmentBytes |-> Data(n)[i]]
      BY <2>10, Zenon
    <2>13. Data(n) = [i \in 1..FragmentBytes |-> Data(n)[i]]
      BY DEF Data
    <2> QED
      BY <2>9, <2>11, <2>12, <2>13
  <1> QED
    BY <1>3, <1>4

-----------------------------------------------------------------------------
\* The fragments at first, and in every step.
LEMMA FInvInit ==
  ASSUME Init
  PROVE  FInv
  <1>1. ExportShape
    BY ExportOffTyped DEF Init, ExportShape
  <1>2. /\ exporter.state = "IDLE" /\ exporter.payload = "IDLE" /\ ~plane.request_pending
        /\ plane.owner = "none" /\ ~builder.building /\ ~builder.queued /\ ~builder.ready
    BY DEF Init, ExporterOff, PlaneOff, BuilderOff
  <1>3. store.pending = NoRequest /\ store.admin.state = "IDLE"
    BY DEF Init, StoreOff, NoAdmin
  <1> QED
    BY <1>1, <1>2, <1>3
       DEF FInv, Handshake, AtWork, ByteAsked, FrameBuilt, FragmentWhole

LEMMA FInvNext ==
  ASSUME IInv, FInv, [Next]_vars
  PROVE  FInv'
  <1>1. CASE Next
    <2>1. Shape /\ WriterPlaced /\ QuietUnlessUp
      BY DEF IInv
    <2>2. PICK x, offer, token, received, start, ready :
             Moved(x, offer, token, received, start, ready)
      BY <1>1, <2>1, NextMoves
    <2>3. PICK other, sent : ExportCycle(other, sent, x)
      BY <2>2 DEF Moved
    <2> DEFINE j == Wires(other, sent)
    <2>4. /\ StoreCycle(x, offer)
          /\ exporter' = ExporterStep(exporter, plane, builder, j, store, x)
          /\ plane' = PlaneStep(exporter, plane, builder, j)
          /\ builder' = BuilderStep(exporter, plane, builder, j)
      BY <2>2, <2>3 DEF Moved, ExportCycle
    <2>5. j.link = link /\ j.session = connected /\ j.generation = writer.session
      BY DEF Wires
    <2>6. link \in BOOLEAN /\ link' \in BOOLEAN
      BY <2>3 DEF FInv, ExportShape, ExportCycle, LinkNext
    <2> HIDE DEF j
    <2>7. Works(x, offer, j)
      BY <2>4, <2>5, <2>6 DEF Works
    <2> QED
      BY <2>7, ExportShapeNext, HandshakeNext, AtWorkNext, ByteAskedNext, FrameBuiltNext,
         FragmentWholeNext DEF FInv
  <1>2. CASE UNCHANGED vars
    <2>1. /\ store' = store /\ writer' = writer /\ exporter' = exporter /\ plane' = plane
          /\ builder' = builder /\ link' = link
      BY <1>2 DEF vars, served, export
    <2> QED
      BY <2>1 DEF FInv, ExportShape, Handshake, AtWork, ByteAsked, FrameBuilt, FragmentWhole
  <1> QED
    BY <1>1, <1>2

\* Each fragment the MCU is sent is, byte by byte, the place in the descriptor that its
\* header says, as captured from the device of the header's generation: over losses of
\* the link, unplugs in mid-fragment and other senders' frames (FragmentWhole).
THEOREM FragmentsAreWhole ==
  Spec => []FragmentWhole
  <1>1. Init => FInv
    BY FInvInit
  <1>2. IInv /\ FInv /\ [Next]_vars => FInv'
    BY FInvNext
  <1>3. FInv => FragmentWhole
    BY DEF FInv
  <1> QED
    BY <1>1, <1>2, <1>3, DescriptorServeInv, PTL DEF Spec
=============================================================================
