--------------------------- MODULE DescriptorServe ---------------------------
(***************************************************************************)
(* The descriptor store between its writer and its readers: the enumerator *)
(* captures a device's descriptors, one after the other, the clone serves  *)
(* them to the PC packet by packet, and the exporter sends those of the    *)
(* reports to the MCU.  A step is one cycle of the usb clock.              *)
(*                                                                         *)
(* The writer is the enumerator's store strobes (module Enumerator has its *)
(* state machine); the PC is a host that sends SETUP and IN tokens, and    *)
(* acknowledges packets or misses them.  A byte is <<key, n, i>>: byte i   *)
(* of the descriptor `key` as captured in session n.                       *)
(***************************************************************************)
EXTENDS DescriptorStreamer, DescriptorExport

CONSTANTS
    Scripts,             \* per session, the <<key, length>> its device has
    Lengths,             \* the wLengths a PC asks for
    MaxSetups,           \* bound: requests of the PC
    MaxBusySetups,       \* bound: those of them before or during an export
    MaxLosses            \* bound: losses of the link to the MCU

VARIABLES
    store,
    streamer,
    writer,              \* phase, session, captured descriptors, bytes of this one
    pc,                  \* phase, key, wLength, start_position, bytes acknowledged
    exporter, plane, builder,
    link,                \* whether the link to the MCU is up
    told,                \* kept by nobody: the descriptor bytes queued for the MCU in
                         \* this export
    setups, losses

served == <<streamer, writer, pc, setups>>
export == <<exporter, plane, builder, link, told, losses>>
vars == <<store, served, export>>

ASSUME ServeAssumption ==
    /\ Scripts \in Seq(Seq(Keys \X (Nat \ {0})))
    /\ Lengths \subseteq Nat \ {0} /\ {MaxSetups, MaxBusySetups, MaxLosses} \subseteq Nat

Unplugged == [phase |-> "off", session |-> 0, done |-> 0, bytes |-> 0]
NoTransfer ==
    [phase |-> "idle", key |-> NoKey, length |-> 0, position |-> 0, acked |-> 0,
     bytes |-> 0]

Init ==
    /\ store = StoreOff /\ streamer = StreamerOff
    /\ writer = Unplugged /\ pc = NoTransfer
    /\ exporter = ExporterOff /\ plane = PlaneOff /\ builder = BuilderOff
    /\ link = TRUE /\ told = <<>>
    /\ setups = 0 /\ losses = 0

-----------------------------------------------------------------------------
(***************************************************************************)
(* The writer.  Phases clear, start, commit and abort are the cycle of the *)
(* strobe; "wait" is any time between two captures, "up" is READY.         *)
(***************************************************************************)
script == Scripts[writer.session]
current == script[writer.done + 1]

Offers == writer.phase = "data" /\ writer.bytes < current[2]
ByteOffered == <<current[1], writer.session, writer.bytes>>

Strobes(offer) ==
    [Quiet EXCEPT
        !.clear = writer.phase \in {"clear", "drop"},
        !.abort = writer.phase \in {"clear", "drop", "abort"},
        !.start = IF writer.phase = "start" THEN current[1] ELSE NoKey,
        !.commit = writer.phase = "commit",
        !.data = IF offer THEN ByteOffered ELSE NoByte]

\* The detach or the retry that may come in any phase but ERROR's.
Broken ==
    \/ /\ writer.session < Len(Scripts)
       /\ writer' = [Unplugged EXCEPT !.phase = "clear", !.session = writer.session + 1]
    \/ writer' = [Unplugged EXCEPT !.phase = "drop", !.session = writer.session]

WriterNext(offer) ==
    LET taken == offer /\ capture_ready(store)
        moved == [writer EXCEPT !.bytes = IF taken THEN @ + 1 ELSE @]
    IN  CASE writer.phase = "off" ->
               \/ UNCHANGED writer
               \/ /\ writer.session < Len(Scripts)
                  /\ writer' = [Unplugged EXCEPT !.phase = "clear",
                                                 !.session = writer.session + 1]
          [] writer.phase = "drop" -> writer' = [writer EXCEPT !.phase = "off"]
          [] writer.phase = "clear" -> writer' = [writer EXCEPT !.phase = "wait"]
          [] writer.phase = "wait" ->
               \/ UNCHANGED writer
               \/ Broken
               \/ writer' = [writer EXCEPT !.bytes = 0,
                     !.phase = IF writer.done = Len(script) THEN "up" ELSE "start"]
          [] writer.phase = "start" -> writer' = [writer EXCEPT !.phase = "data"]
          [] writer.phase = "data" ->
               \/ /\ store.capture.overflow
                  /\ writer' = [writer EXCEPT !.phase = "abort"]
               \/ ~store.capture.overflow /\ writer' = moved
               \/ /\ ~store.capture.overflow /\ moved.bytes = current[2]
                  /\ writer' = [moved EXCEPT !.phase = "commit"]
               \/ Broken
          [] writer.phase = "commit" ->
               writer' = [writer EXCEPT !.phase = "wait", !.done = @ + 1]
          [] writer.phase = "abort" -> writer' = [writer EXCEPT !.phase = "error"]
          [] writer.phase \in {"up", "error"} ->
               \/ UNCHANGED writer
               \/ writer' = [Unplugged EXCEPT !.phase = "drop", !.session = writer.session]
          [] OTHER -> FALSE

\* The clone is connected while the host is READY and nothing is written.
connected == writer.phase = "up"

-----------------------------------------------------------------------------
(***************************************************************************)
(* The PC and LUNA's request handler.  The SETUP token resets the handler, *)
(* its data starts the lookup (of another request's, cancels it), an IN    *)
(* starts a packet, the ACK moves start_position on by a packet.           *)
(***************************************************************************)
Inputs(received, start, ready) ==
    [prepare |-> received = "descriptor", cancel |-> received = "other",
     start |-> start, key |-> pc.key, length |-> pc.length,
     start_position |-> pc.position, ready |-> ready]

Exporting ==
    exporter.state # "IDLE" \/ plane.export_pending \/ ~plane.link_q \/ ~plane.session_q

SetupToken ==
    /\ connected /\ pc.phase # "setup"
    /\ setups < IF Exporting THEN MaxBusySetups ELSE MaxSetups
    /\ \E key \in Keys, length \in Lengths :
          pc' = [NoTransfer EXCEPT !.phase = "setup", !.key = key, !.length = length]
    /\ setups' = setups + 1

PcDisconnected == ~connected /\ pc' = NoTransfer /\ UNCHANGED setups

\* What the PC and the handler do in a cycle without a SETUP token.
PcCycle(received, start, ready) ==
    CASE pc.phase = "setup" ->
           pc' = IF received = "other" THEN NoTransfer
                 ELSE [pc EXCEPT !.phase = IF received = "none" THEN @ ELSE "ready"]
      [] pc.phase = "ready" ->
           pc' = IF start THEN [pc EXCEPT !.phase = "packet", !.bytes = 0] ELSE pc
      [] pc.phase = "packet" ->
           pc' = IF streamer.active /\ ready
                 THEN [pc EXCEPT !.bytes = @ + 1,
                          !.phase = IF tx_last(streamer) THEN "acking" ELSE @]
                 ELSE [pc EXCEPT !.phase = IF streamer.zlp THEN "acking"
                                           ELSE IF streamer.stall THEN "stalled" ELSE @]
      [] pc.phase = "acking" ->
           \/ UNCHANGED pc
           \/ pc' = [pc EXCEPT !.phase = "ready"]             \* the packet was missed
           \/ LET acked == pc.acked + pc.bytes
              IN  pc' = [pc EXCEPT
                     !.acked = acked, !.position = @ + MaxPacketSize0,
                     !.phase = IF pc.bytes < MaxPacketSize0 \/ acked >= pc.length
                               THEN "done" ELSE "ready"]
      [] OTHER -> UNCHANGED pc

-----------------------------------------------------------------------------
(***************************************************************************)
(* The exporter, the plane and the builder.                                *)
(***************************************************************************)
Wires(other, sent) ==
    [link |-> link, session |-> connected, generation |-> writer.session,
     other |-> other, sent |-> sent]

\* Another message can be built if the builder is free.
Others ==
    {FALSE, plane.owner = "other" \/ (plane.owner = "none" /\ ~builder.building
                                        /\ ~builder.queued)}

\* The link is lost and comes back.
LinkNext ==
    \/ UNCHANGED <<link, losses>>
    \/ link /\ losses < MaxLosses /\ link' = FALSE /\ losses' = losses + 1
    \/ ~link /\ link' = TRUE /\ UNCHANGED losses

\* The bytes of a fragment that are not padding, as its header says.
FragmentData ==
    SubSeq(builder.data, 1,
           Lesser(FragmentBytes, builder.header.length - builder.header.offset))

\* x is what the store sees.
ExportCycle(other, sent, x) ==
    LET j == Wires(other, sent)
    IN  /\ exporter' = ExporterStep(exporter, plane, builder, j, store, x)
        /\ plane' = PlaneStep(exporter, plane, builder, j)
        /\ builder' = BuilderStep(exporter, plane, builder, j)
        /\ told' = IF x.clear \/ export_start(exporter, plane, j) THEN <<>>
                   ELSE IF message_ready(plane, builder) THEN told \o FragmentData
                   ELSE told
        /\ LinkNext

-----------------------------------------------------------------------------
\* What the store sees in a cycle: the writer's strobes, the exporter's request and
\* what the streamer asks.
StoreInputs(offer, i) ==
    LET asked == Asked(streamer, i)
    IN  [Strobes(offer) EXCEPT
            !.request = export_request(exporter), !.serve_request = asked.serve_request,
            !.serve_cancel = asked.serve_cancel, !.offset = asked.offset,
            !.read_enable = asked.read_enable]

\* One cycle: of the writer, the streamer, the store and the exporter.
Cycle(offer, token, i) ==
    LET x == StoreInputs(offer, i)
    IN  /\ store' = StoreStep(store, x)
        /\ streamer' = IF token THEN StreamerOff ELSE StreamerStep(streamer, i, store, x)
        /\ WriterNext(offer)
        /\ \E other \in Others, sent \in {FALSE, builder.queued /\ ~builder.ready} :
              ExportCycle(other, sent, x)

\* A cycle in which the PC sends the token of a SETUP, and one in which it does
\* not; `ready` is the transmitter's.
TokenCycle(offer, ready) == SetupToken /\ Cycle(offer, TRUE, Inputs("none", FALSE, ready))

PlainCycle(offer, received, start, ready) ==
    /\ IF connected THEN PcCycle(received, start, ready) /\ UNCHANGED setups
       ELSE PcDisconnected
    /\ Cycle(offer, FALSE, Inputs(received, start, ready))

\* What the handler may strobe.
Received ==
    IF connected /\ pc.phase = "setup" THEN {"none", "descriptor", "other"} ELSE {"none"}
Starts == {FALSE, connected /\ pc.phase = "ready"}

Next ==
    \E offer \in {FALSE, Offers}, ready \in {FALSE, streamer.active} :
        \/ TokenCycle(offer, ready)
        \/ \E received \in Received, start \in Starts :
              PlainCycle(offer, received, start, ready)

\* While the PC waits for a packet the clock runs, and the transmitter takes a byte
\* that stays offered; the device and the writer need not do anything.
Ready ==
    /\ pc.phase = "packet" /\ connected
    /\ UNCHANGED writer
    /\ PlainCycle(FALSE, "none", FALSE, streamer.active)

Spec == Init /\ [][Next]_vars
FairSpec == Spec /\ WF_vars(Ready)

-----------------------------------------------------------------------------
(***************************************************************************)
(* Properties.                                                             *)
(***************************************************************************)
Whole(key, start, length) ==
    /\ start + length <= store.allocator
    /\ \A i \in 0..(length - 1) :
          /\ store.memory[start + i][1] = key
          /\ store.memory[start + i][2] = store.memory[start][2]
          /\ store.memory[start + i][3] = i

\* The directory names each descriptor once, and every entry of it is one whole
\* capture of this session's device: the space a capture takes is not shared
\* with another's, over aborts, recaptures of a key and overflows.
EntriesWhole ==
    writer.phase # "clear" =>
    /\ \A i \in store.valid :
          LET d == store.directory[i]
          IN  /\ Whole(d.key, d.start, d.length)
              /\ store.memory[d.start][2] = writer.session
              /\ <<d.key, d.length>> \in {script[k] : k \in DOMAIN script}
    /\ \A i, j \in store.valid :
          store.directory[i].key = store.directory[j].key => i = j

\* While a packet is sent to the PC the byte on the wire is the next one of the
\* descriptor the PC asked for, with no bubble after a wait of the transmitter.
RightByte ==
    connected /\ streamer.active /\ pc.phase = "packet" =>
        /\ serve_data(store) = <<pc.key, writer.session, streamer.pos>>
        /\ streamer.pos = pc.acked + pc.bytes

EntryOf(key) == {i \in store.valid : store.directory[i].key = key}

\* A transfer the PC takes for complete has as many bytes as the PC asked for or
\* the descriptor has, whichever is less; only a descriptor the device does not
\* have is refused.
TransferComplete ==
    connected =>
        /\ pc.phase = "done" =>
              \E i \in EntryOf(pc.key) :
                  pc.acked = Lesser(pc.length, store.directory[i].length)
        /\ pc.phase = "stalled" => EntryOf(pc.key) = {}

\* A queued fragment is of the generation and the place in the descriptor that its
\* header says.
FragmentWhole ==
    builder.queued /\ builder.header # NoHeader =>
        LET h == builder.header
        IN  builder.data = [i \in 1..FragmentBytes |->
               IF h.offset + i <= h.length THEN <<h.key, h.generation, h.offset + i - 1>>
               ELSE NoByte]

\* The MCU was told the first n bytes of the descriptor, once and in order.
ToldOf(key, n) ==
    SelectSeq(told, LAMBDA byte : byte[1] = key) =
        [i \in 1..n |-> <<key, writer.session, i - 1>>]

\* What the MCU is sent: each fragment is what its header says; the exporter is as
\* far in a descriptor as the MCU was told of it; and an export that is done has told
\* all of each report descriptor of the device.  This also when the link is lost or
\* the device unplugged between two bytes of a fragment, when other messages' frames
\* come between two fragments, and when an export is asked for again while one runs.
ExportedWhole ==
    /\ FragmentWhole
    /\ exporter.state = "EMIT" => ToldOf(exporter.key, exporter.offset)
    /\ exporter.done =>
         /\ \A i \in store.valid :
              store.directory[i].key \in ReportKeys =>
                 ToldOf(store.directory[i].key, store.directory[i].length)
         /\ \A n \in DOMAIN told : EntryOf(told[n][1]) # {}

\* Every IN of the PC is answered, whichever cycle it meets the lookup in, unless
\* the clone is disconnected.
EveryInAnswered == pc.phase = "packet" ~> (pc.phase # "packet" \/ ~connected)
=============================================================================
