--------------------------- MODULE InjectionPlane ---------------------------
(***************************************************************************)
(* The FPGA's end of the injection link: the slot master's one-frame       *)
(* queues (spi_link.py), the plane that stages, orders and acts on frames  *)
(* (gateware.py), the map store, the descriptor export and the report      *)
(* monitor.                                                                *)
(*                                                                         *)
(* A step is a piece of work the gateware does at once: it takes at most   *)
(* some 4000 of the 7500 cycles of a slot, so all of it is settled when    *)
(* the next slot starts; session and link may fall between any two steps.  *)
(* A descriptor is one fragment.                                           *)
(***************************************************************************)
EXTENDS InjectionMapStore

CONSTANT Devices   \* generation -> sequence of the classes of its interfaces

ASSUME PlaneAssumption ==
  /\ Devices \in Seq(Seq({"NONE", "MOUSE", "PAD"}) \ {<<>>}) /\ Devices # <<>>

VARIABLES
  link_ready,  \* mcu_ready
  session,     \* host.enumerated
  failed,      \* a poller failed; only a new enumeration clears it
  generation,  \* descriptor_store.descriptor_generation
  rx,          \* the frame the slot master published, or none
  staged,      \* the staged frame and whether its number is new, or none
  last_rx,     \* last_rx_sequence, or none
  store,       \* the map store
  status,      \* the MAP_STATUS held, or none
  export,      \* generation of the export and its next interface (0: not busy)
  export_pending,
  monitor,     \* the report the monitor holds, or none
  tx           \* the message the slot master queued, or none

planeVars == <<link_ready, session, failed, generation, rx, staged, last_rx, store, status,
               export, export_pending, monitor, tx>>
rxVars == <<rx, staged, last_rx, store>>
txVars == <<status, export, export_pending, monitor, tx>>
deviceVars == <<session, failed, generation>>

NoSequence == SeqModulus

invalidate == ~link_ready \/ ~session
Interfaces(g) == DOMAIN Devices[g]

PlaneInit ==
  /\ link_ready = FALSE /\ session = FALSE /\ failed = FALSE /\ generation = 1
  /\ rx = None /\ staged = None /\ last_rx = NoSequence /\ store = StoreInit
  /\ status = None /\ export = [desc |-> 1, next |-> 0] /\ export_pending = FALSE
  /\ monitor = None /\ tx = None

-----------------------------------------------------------------------------
\* The link or the session falls, or has fallen: the receive side forgets.
Invalidated ==
  /\ rx' = None
  /\ staged' = None
  /\ last_rx' = NoSequence
  /\ store' = StoreInvalidate(store)

\* export_trigger: one of link and session rises, and the other is up.
Triggered(other) == export_pending' = (export_pending \/ other)

LinkFalls ==
  /\ link_ready' = FALSE
  /\ Invalidated
  /\ UNCHANGED <<deviceVars, status, export, export_pending, monitor>>

LinkRises ==
  /\ link_ready' = TRUE
  /\ Triggered(session)
  /\ UNCHANGED <<deviceVars, rxVars, status, export, monitor, tx>>

\* A poll fails: the session falls, the generation stays.
PollFailure ==
  /\ session
  /\ session' = FALSE
  /\ failed' = TRUE
  /\ Invalidated
  /\ UNCHANGED <<link_ready, generation, txVars>>

\* go_detached, retry_enumeration: store.clear takes a new generation and
\* stops the export.
Detach ==
  /\ generation < Len(Devices)
  /\ generation' = generation + 1
  /\ session' = FALSE
  /\ failed' = FALSE
  /\ export' = [export EXCEPT !.next = 0]
  /\ Invalidated
  /\ UNCHANGED <<link_ready, status, export_pending, monitor, tx>>

Enumerated ==
  /\ ~session
  /\ ~failed
  /\ session' = TRUE
  /\ Triggered(link_ready)
  /\ UNCHANGED <<link_ready, failed, generation, rxVars, status, export, monitor, tx>>

-----------------------------------------------------------------------------
\* Mutant: a duplicate is new.
sequence_class_allowed_again(frame) ==
  last_rx = NoSequence \/ (frame.seq - last_rx) % SeqModulus < SeqModulus \div 2

\* The number's class, decided as the frame is staged: new, or stale or a
\* duplicate.
sequence_class_allowed(frame) ==
  \/ last_rx = NoSequence
  \/ (frame.seq - last_rx) % SeqModulus \in 1..(SeqModulus \div 2 - 1)

Stage ==
  /\ rx # None
  /\ staged = None
  /\ ~invalidate
  /\ staged' = [type |-> "STAGED", frame |-> rx, allowed |-> sequence_class_allowed(rx)]
  /\ rx' = None
  /\ UNCHANGED <<link_ready, deviceVars, last_rx, store, txVars>>

\* The FPGA takes a command that cites the map that is active.
command_fresh(frame) ==
  /\ ~invalidate
  /\ active_valid(store, generation)
  /\ frame.map = store.bank.map

is_command(frame) == frame.type \in Commands

\* rx_accept: the frame leaves; its number counts whatever its content.
FrameLeaves ==
  /\ staged' = None
  /\ last_rx' = IF staged.allowed THEN staged.frame.seq ELSE last_rx

\* begin_accept, entry_accept, commit_accept; map_receiving is the store's
\* RECEIVE.
MapMessage(frame) ==
  CASE frame.type = "MAP_BEGIN" /\ ~busy(store) -> StoreBegin(store, frame)
    [] frame.type = "MAP_ENTRY" /\ store.state = "RECEIVE" -> StoreEntry(store, frame)
    [] frame.type = "MAP_COMMIT" /\ store.state = "RECEIVE" ->
         StoreCommit(store, frame, generation)
    [] OTHER -> store

\* A frame the engine has no part in.
Accept ==
  /\ staged # None
  /\ staged.allowed /\ is_command(staged.frame) => ~command_fresh(staged.frame)
  /\ FrameLeaves
  /\ store' = IF staged.allowed THEN MapMessage(staged.frame) ELSE store
  /\ UNCHANGED <<link_ready, deviceVars, rx, txVars>>

\* A fresh command waits for the engine, which commits it with a report.
CommandWaits ==
  /\ staged # None
  /\ staged.allowed
  /\ is_command(staged.frame)
  /\ command_fresh(staged.frame)

CommandLeaves ==
  /\ CommandWaits
  /\ FrameLeaves
  /\ UNCHANGED <<link_ready, deviceVars, rx, store, txVars>>

\* ACCEPT or REJECT, and the MAP_STATUS it raises; the one held is kept.
Validate ==
  /\ store.state = "VALIDATE"
  /\ store' = StoreEnd(store, generation)
  /\ status' = IF status # None THEN status
               ELSE Message(IF Accepted(store, generation) THEN "ACCEPTED" ELSE "REJECTED",
                            generation, store'.bank.map)
  /\ UNCHANGED <<link_ready, deviceVars, rx, staged, last_rx, export, export_pending, monitor, tx>>

-----------------------------------------------------------------------------
ExportStart ==
  /\ export_pending
  /\ ~invalidate
  /\ export.next = 0
  /\ export' = [desc |-> generation, next |-> 1]
  /\ export_pending' = FALSE
  /\ UNCHANGED <<link_ready, deviceVars, rxVars, status, monitor, tx>>

\* The monitor takes a copy of a report if it has room, and never holds it up.
Report(interface) ==
  /\ session
  /\ interface \in Interfaces(generation)
  /\ monitor = None
  /\ monitor' = Message("REPORT", generation, interface)
  /\ UNCHANGED <<link_ready, deviceVars, rxVars, status, export, export_pending, tx>>

FillStatus == status # None /\ tx' = status /\ status' = None /\ UNCHANGED <<export, monitor>>

FillDescriptor ==
  /\ status = None
  /\ export.next # 0
  /\ tx' = Message("DESCRIPTOR", export.desc, export.next)
  /\ export' = [export EXCEPT !.next =
                  IF export.next = Len(Devices[export.desc]) THEN 0 ELSE @ + 1]
  /\ UNCHANGED <<status, monitor>>

FillReport ==
  /\ status = None /\ export.next = 0
  /\ monitor # None
  /\ tx' = monitor
  /\ monitor' = None
  /\ UNCHANGED <<status, export>>

\* The slot master's queue is filled, by the priority of the sources.
Fill ==
  /\ tx = None
  /\ link_ready
  /\ FillStatus \/ FillDescriptor \/ FillReport
  /\ UNCHANGED <<link_ready, deviceVars, rxVars, export_pending>>

-----------------------------------------------------------------------------
\* All that can be done before the next slot is done.
Settled ==
  /\ staged = None \/ CommandWaits
  /\ rx # None => staged # None
  /\ store.state # "VALIDATE"
  /\ ~(export_pending /\ ~invalidate /\ export.next = 0)
  /\ link_ready => tx # None \/ (status = None /\ export.next = 0 /\ monitor = None)

\* The end of a slot: the queued message is gone, the MCU's frame published if
\* the queue is free, or drained at once if the plane is invalidated.
Published(frame) ==
  rx' = IF frame.type = "IDLE" \/ invalidate \/ rx # None THEN rx ELSE frame

PlaneWork == Stage \/ Accept \/ Validate \/ ExportStart \/ Fill
=============================================================================
