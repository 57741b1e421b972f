---------------------------- MODULE SharedWindow ----------------------------
(***************************************************************************)
(* The memory window the MCU's two cores share (shared_window.c): core 0   *)
(* publishes the state of the link from its retirement interrupt           *)
(* (link_snapshot.c) and a report descriptor from its foreground (link.c); *)
(* core 1 reads both to draw the panel (main_core1.c, display.c), and core *)
(* 0's console reads the first too (usb_console.c).                        *)
(*                                                                         *)
(* Both are sequence locks: odd while it is written, even when stable.  A  *)
(* step is one volatile access of a core, or several of a core that the    *)
(* other cannot tell apart.  The window survives a reset of the chip.      *)
(* A field of the state holds the number of the publication it is from;    *)
(* byte i of descriptor d is <<d, i>>.  Left out: the fault verdict, a     *)
(* third lock like the first with a single attempt, and the 32-bit wrap of *)
(* the sequences.                                                          *)
(***************************************************************************)
EXTENDS Naturals

CONSTANTS
  FieldCount,    \* fields of link_snapshot_t
  ReadAttempts,  \* LINK_SNAPSHOT_READ_ATTEMPTS
  Capacity,      \* SHARED_DESCRIPTOR_CAPACITY
  Descriptors,   \* the descriptors of the devices to come
  \* bounds
  MaxPublications,
  MaxStops       \* resets of the chip and halts of core 1

Fields == 1..FieldCount
Offsets == 1..Capacity

ASSUME WindowAssumption ==
  /\ {FieldCount, ReadAttempts, Capacity} \subseteq Nat \ {0}
  /\ {MaxPublications, MaxStops} \subseteq Nat
  /\ Descriptors \subseteq [generation : Nat \ {0}, interface : Nat, length : Offsets,
                            injectable : BOOLEAN]

VARIABLES
  magic,      \* the window is valid
  snapshot,   \* its sequence and fields
  block,      \* the descriptor's sequence, header and bytes
  booted,     \* core 0 has reset the window
  writer,     \* what core 0 is publishing, and the word it is at
  panel,      \* s_panel_*: the descriptor published last, or none
  running,    \* core 1 is
  reader,     \* per core, link_snapshot_read
  last,       \* per core, last_snapshot
  frame,      \* core 1's display_start_frame
  shown,      \* s_display.descriptor and descriptor_bytes
  published, stops  \* history: how many there were

vars == <<magic, snapshot, block, booted, writer, panel, running, reader, last, frame, shown,
          published, stops>>

Cores == {0, 1}

NoByte == <<>>
NoDescriptor == [generation |-> 0, interface |-> 0, length |-> 0, injectable |-> FALSE]
Header(d) == [generation |-> d.generation, interface |-> d.interface, length |-> d.length]
EmptyHeader == Header(NoDescriptor)

NoSnapshot == [f \in Fields |-> 0]
NothingShown == [header |-> EmptyHeader, bytes |-> [i \in Offsets |-> NoByte]]
EmptyBlock == [sequence |-> 0, header |-> EmptyHeader, data |-> [i \in Offsets |-> NoByte]]
NoWriter == [what |-> "none", at |-> 0]
NotReading == [at |-> 0, attempt |-> 0, seq |-> 0, copy |-> NoSnapshot]
NoFrame == [at |-> "none", seq |-> 0, byte |-> 0, header |-> EmptyHeader]

Odd(n) == n % 2 = 1

Init ==
  /\ magic = FALSE /\ snapshot = [seq |-> 0, mem |-> NoSnapshot] /\ block = EmptyBlock
  /\ booted = FALSE /\ writer = NoWriter /\ panel = NoDescriptor
  /\ running = FALSE
  /\ reader = [c \in Cores |-> NotReading] /\ last = [c \in Cores |-> NoSnapshot]
  /\ frame = NoFrame /\ shown = NothingShown
  /\ published = 0 /\ stops = 0

core1Vars == <<frame, shown>>
readVars == <<reader, last>>

-----------------------------------------------------------------------------
\* link_snapshot_publish, from the interrupt: nothing else of core 0 runs.
PublishBegin ==
  /\ magic /\ writer = NoWriter
  /\ published < MaxPublications
  /\ published' = published + 1
  /\ snapshot' = [snapshot EXCEPT !.seq = @ + 1]
  /\ writer' = [what |-> "snapshot", at |-> 1]
  /\ UNCHANGED <<magic, block, booted, panel, running, readVars, core1Vars, stops>>

PublishField ==
  /\ writer.what = "snapshot" /\ writer.at \in Fields
  /\ snapshot' = [snapshot EXCEPT !.mem[writer.at] = published]
  /\ writer' = [writer EXCEPT !.at = @ + 1]
  /\ UNCHANGED <<magic, block, booted, panel, running, readVars, core1Vars, published, stops>>

PublishEnd ==
  /\ writer.what = "snapshot" /\ writer.at = FieldCount + 1
  /\ snapshot' = [snapshot EXCEPT !.seq = @ + 1]
  /\ writer' = NoWriter
  /\ UNCHANGED <<magic, block, booted, panel, running, readVars, core1Vars, published, stops>>

-----------------------------------------------------------------------------
\* link_snapshot_read.  Core 0 reads in its foreground, which has to wait for
\* the interrupt and does not publish meanwhile; core 1 between two frames.
MayRead(c) ==
  IF c = 0 THEN booted /\ writer.what = "none" ELSE running /\ frame.at = "none"

Retry(c) ==
  reader' = [reader EXCEPT ![c] =
    [NotReading EXCEPT !.attempt = IF reader[c].attempt + 1 = ReadAttempts THEN 0
                                   ELSE reader[c].attempt + 1]]

ReadBegin(c) ==
  /\ MayRead(c) /\ reader[c].at = 0
  /\ \/ Odd(snapshot.seq) /\ Retry(c)
     \/ /\ ~Odd(snapshot.seq)
        /\ reader' = [reader EXCEPT ![c].at = 1, ![c].seq = snapshot.seq]
  /\ UNCHANGED <<magic, snapshot, block, booted, writer, panel, running, last, core1Vars,
                 published, stops>>

ReadField(c) ==
  /\ MayRead(c) /\ reader[c].at \in Fields
  /\ reader' = [reader EXCEPT ![c].copy[reader[c].at] = snapshot.mem[reader[c].at],
                              ![c].at = @ + 1]
  /\ UNCHANGED <<magic, snapshot, block, booted, writer, panel, running, last, core1Vars,
                 published, stops>>

\* The sequence has not moved: the copy is one publication's.
Unmoved(c) == snapshot.seq = reader[c].seq

\* A new copy is drawn, unless the frame before is still under way.
ReadEnd(c) ==
  /\ MayRead(c) /\ reader[c].at = FieldCount + 1
  /\ \/ ~Unmoved(c) /\ Retry(c) /\ UNCHANGED <<last, frame>>
     \/ /\ Unmoved(c)
        /\ last' = [last EXCEPT ![c] = reader[c].copy]
        /\ reader' = [reader EXCEPT ![c] = NotReading]
        /\ \/ frame' = frame
           \/ c = 1 /\ frame' = [NoFrame EXCEPT !.at = "sequence"]
  /\ UNCHANGED <<magic, snapshot, block, booted, writer, panel, running, shown, published,
                 stops>>
-----------------------------------------------------------------------------
\* link_descriptor_service has judged d: the panel gets the first descriptor of a
\* generation, and an injectable one after one that is not.
Wanted(d) ==
  \/ panel.generation # d.generation
  \/ d.injectable /\ ~panel.injectable

\* link_descriptor_publish, in the foreground with the interrupt masked.
DescriptorBegin(d) ==
  /\ booted /\ writer = NoWriter
  /\ reader[0] = NotReading
  /\ d.generation >= panel.generation /\ Wanted(d)
  /\ panel' = d
  /\ block' = [block EXCEPT !.sequence = @ + 1]
  /\ writer' = [what |-> "descriptor", at |-> 1]
  /\ UNCHANGED <<magic, snapshot, booted, running, readVars, core1Vars, published, stops>>

DescriptorByte ==
  /\ writer.what = "descriptor" /\ writer.at \in 1..panel.length
  /\ block' = [block EXCEPT !.data[writer.at] = <<panel, writer.at>>]
  /\ writer' = [writer EXCEPT !.at = @ + 1]
  /\ UNCHANGED <<magic, snapshot, booted, panel, running, readVars, core1Vars, published, stops>>

\* A word of the header after the other.
HeaderWords == <<"generation", "interface", "length">>

DescriptorWord ==
  /\ writer.what = "descriptor" /\ writer.at - panel.length \in 1..3
  /\ LET w == HeaderWords[writer.at - panel.length]
     IN  block' = [block EXCEPT !.header[w] = panel[w]]
  /\ writer' = [writer EXCEPT !.at = @ + 1]
  /\ UNCHANGED <<magic, snapshot, booted, panel, running, readVars, core1Vars, published, stops>>

DescriptorEnd ==
  /\ writer.what = "descriptor" /\ writer.at = panel.length + 4
  /\ block' = [block EXCEPT !.sequence = @ + 1]
  /\ writer' = NoWriter
  /\ UNCHANGED <<magic, snapshot, booted, panel, running, readVars, core1Vars, published, stops>>

-----------------------------------------------------------------------------
\* display_start_frame's copy of the descriptor.
Core1Only == UNCHANGED <<magic, snapshot, block, booted, writer, panel, running, readVars,
                         published, stops>>

FrameSequence ==
  /\ frame.at = "sequence"
  /\ frame' = IF Odd(block.sequence) THEN NoFrame
              ELSE [frame EXCEPT !.at = "generation", !.seq = block.sequence]
  /\ UNCHANGED shown /\ Core1Only

FrameGeneration ==
  /\ frame.at = "generation"
  /\ frame' = [frame EXCEPT !.at = "length", !.header.generation = block.header.generation]
  /\ UNCHANGED shown /\ Core1Only

\* Mutant: the header is taken over before the copy is known to be good.
AdoptsHeader(header) == [shown EXCEPT !.header = header]

KeepsHeader(header) == shown

\* What is new is told by generation and length.
FrameLength ==
  /\ frame.at = "length"
  /\ LET header == [frame.header EXCEPT !.length = block.header.length]
         new == \/ header.generation # shown.header.generation
                \/ header.length # shown.header.length
     IN  IF new
         THEN /\ frame' = [frame EXCEPT !.at = "bytes", !.byte = 1, !.header = header]
              /\ shown' = KeepsHeader(header)
         ELSE frame' = NoFrame /\ shown' = shown
  /\ Core1Only

\* The bytes go where those that are shown are.
FrameByte ==
  /\ frame.at = "bytes" /\ frame.byte <= frame.header.length
  /\ shown' = [shown EXCEPT !.bytes[frame.byte] = block.data[frame.byte]]
  /\ frame' = [frame EXCEPT !.byte = @ + 1]
  /\ Core1Only

FrameInterface ==
  /\ frame.at = "bytes" /\ frame.byte = frame.header.length + 1
  /\ frame' = [frame EXCEPT !.at = "check", !.header.interface = block.header.interface]
  /\ UNCHANGED shown /\ Core1Only

FrameEnd ==
  /\ frame.at = "check"
  /\ shown' = IF block.sequence = frame.seq THEN [shown EXCEPT !.header = frame.header] ELSE shown
  /\ frame' = NoFrame
  /\ Core1Only

-----------------------------------------------------------------------------
\* shared_window_reset; it takes the magic away first, which keeps the
\* interrupt out, and puts it back last.  Mutant: the state is left as it is.
ClearedBlockOnly == UNCHANGED snapshot

Cleared == snapshot' = [seq |-> 0, mem |-> NoSnapshot]

WindowReset ==
  /\ ~booted /\ writer = NoWriter
  /\ booted' = TRUE /\ magic' = TRUE
  /\ Cleared
  /\ block' = [block EXCEPT !.sequence = 0, !.header = EmptyHeader]
  /\ UNCHANGED <<writer, panel, running, readVars, core1Vars, published, stops>>

\* core1_release, at the end of the boot and from the console: core 1 starts.
Core1Release ==
  /\ booted /\ ~running /\ writer.what # "descriptor"
  /\ running' = TRUE
  /\ reader' = [reader EXCEPT ![1] = NotReading] /\ last' = [last EXCEPT ![1] = NoSnapshot]
  /\ frame' = NoFrame /\ shown' = NothingShown
  /\ UNCHANGED <<magic, snapshot, block, booted, writer, panel, published, stops>>

\* core1_halt, from the console: core 1 stops wherever it is.
Core1Halt ==
  /\ running /\ writer = NoWriter /\ stops < MaxStops
  /\ running' = FALSE /\ stops' = stops + 1
  /\ frame' = NoFrame /\ reader' = [reader EXCEPT ![1] = NotReading]
  /\ UNCHANGED <<magic, snapshot, block, booted, writer, panel, last, shown, published>>

\* A reset of the chip, at any access: both cores stop, the window stays.
ChipReset ==
  /\ stops < MaxStops
  /\ stops' = stops + 1
  /\ booted' = FALSE /\ writer' = NoWriter /\ panel' = NoDescriptor
  /\ running' = FALSE
  /\ reader' = [c \in Cores |-> NotReading] /\ last' = [c \in Cores |-> NoSnapshot]
  /\ frame' = NoFrame /\ shown' = NothingShown
  /\ UNCHANGED <<magic, snapshot, block, published>>

Publishes ==
  \/ PublishField \/ PublishEnd
  \/ DescriptorByte \/ DescriptorWord \/ DescriptorEnd

Reads(c) == ReadBegin(c) \/ ReadField(c) \/ ReadEnd(c)

Draws ==
  \/ FrameSequence \/ FrameGeneration \/ FrameLength
  \/ FrameByte \/ FrameInterface \/ FrameEnd

Next ==
  \/ PublishBegin
  \/ \E d \in Descriptors : DescriptorBegin(d)
  \/ Publishes
  \/ \E c \in Cores : Reads(c)
  \/ Draws
  \/ WindowReset \/ Core1Release \/ Core1Halt
  \/ ChipReset

Spec == Init /\ [][Next]_vars

\* Both cores run; publications are 125 us apart, far longer than a read, and a
\* frame is over before long: core 1 begins a frame again and again while it runs.
Fairness ==
  /\ WF_vars(Publishes) /\ WF_vars(Draws) /\ WF_vars(Reads(1))
  /\ WF_vars(WindowReset) /\ WF_vars(Core1Release)
  /\ SF_vars(ReadEnd(1) /\ frame'.at = "sequence")

FairSpec == Spec /\ Fairness

-----------------------------------------------------------------------------
\* What a core takes for the state of the link is one publication, or the
\* cleared window: also when a publication overtakes the read, over several
\* attempts, and when a reset of the chip has cut one in two.
SnapshotWhole == \A c \in Cores : \A f, g \in Fields : last[c][f] = last[c][g]

\* The panel shows d.
Shows(d) ==
  /\ shown.header = Header(d)
  /\ \A i \in 1..d.length : shown.bytes[i] = <<d, i>>

\* The descriptor published last comes to the panel, whole, whatever was torn on
\* the way: a generation's first one, or the injectable one.  Of one generation
\* no two may have the same length.
PanelCatchesUp == \A d \in Descriptors : <>[](panel = d) => <>[]Shows(d)

\* What the panel decodes is what was published: "either way, keep the previous
\* copy" (display.c, of a copy that may be spliced).
ShownWhole ==
  frame = NoFrame /\ shown.header # EmptyHeader => \E d \in Descriptors : Shows(d)
=============================================================================
