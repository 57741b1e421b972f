--------------------------- MODULE InjectionLink ---------------------------
(***************************************************************************)
(* The injection link: the FPGA's plane, the slots between the two chips,  *)
(* and the MCU (link.c, inj_session.c, hid_descriptor_set.c) with its      *)
(* retirement interrupt, its foreground and its recovery ladder.           *)
(*                                                                         *)
(* A slot moves one frame each way.  The MCU's frame of slot k is written  *)
(* by the interrupt after slot k - 2: two TX banks the DMA reads in turn.  *)
(* A frame whose CRC fails is lost; an interrupt may come too late, and    *)
(* then both banks go out again.                                           *)
(***************************************************************************)
EXTENDS InjSession, HidDescriptorSet, InjectionPlane

CONSTANTS
  Kinds,  \* the kinds of request the PC's console makes
  MaxFaults,   \* bound: frames lost, late interrupts, recoveries, resets and poll failures
  MaxRequests  \* bound: requests

ASSUME LinkAssumption ==
  Kinds \subseteq Commands /\ MaxFaults \in Nat /\ MaxRequests \in Nat

VARIABLES
  link,  \* "up"; "low": mcu_ready is low; "off": and the interrupt is off
  ring,  \* the TX banks: what the next two slots send
  late,  \* retirement is a rotation behind: the next completion finds no bank
  held,  \* the message in link_retire's ring that nobody has consumed
  ses,   \* the session
  set,   \* the descriptor set: generation, interfaces of its slots, dirty slots
  snap,  \* the snapshot the foreground compiles, or none
  acted, \* history: the commands the engine committed, each with its upload
  lost,  \* history: a message of the FPGA was lost
  blind, \* history: the session has not seen a recovery
  faults, requests  \* history: how many there were

mcuVars == <<link, ring, late, held, ses, set, snap>>
historyVars == <<acted, lost, blind, faults, requests>>
vars == <<planeVars, mcuVars, historyVars>>

Fault == faults < MaxFaults /\ faults' = faults + 1 /\ UNCHANGED requests
NoFault == UNCHANGED <<faults, requests>>

IdleRing == <<Idle, Idle>>

NoUpload == [map |-> 0, desc |-> 0, boot |-> 0]

\* The upload a frame belongs to.
UploadOf(frame) == [map |-> frame.map, desc |-> frame.desc, boot |-> frame.boot]

Init ==
  /\ PlaneInit
  /\ link = "off" /\ ring = IdleRing /\ late = FALSE /\ held = None
  /\ ses = SessionInit(0) /\ set = EmptySet /\ snap = None
  /\ acted = <<>> /\ lost = FALSE /\ blind = FALSE
  /\ faults = 0 /\ requests = 0

-----------------------------------------------------------------------------
\* link_inject_consume of one message, on the session and on the set.
ConsumedBySet(d, msg) ==
  IF msg.type = "DESCRIPTOR" THEN Push(d, msg.desc, msg.arg) ELSE d

Consume(s, d, msg) ==
  CASE msg.type = "DESCRIPTOR" ->
         ObserveDescriptor(s, msg.desc, PushedSlot(d, msg.desc, msg.arg),
                           newly_complete(d, msg.desc, msg.arg))
    [] msg.type = "REPORT" -> ObserveReport(s, msg.desc, msg.arg)
    [] msg.type \in {"ACCEPTED", "REJECTED"} ->
         ObserveMapStatus(s, msg.type = "ACCEPTED", msg.arg)
    [] OTHER -> s

\* A recovery the session has not seen is made good by a new device or a new
\* upload.
Sighted(s) == blind' = (blind /\ s.desc = ses.desc /\ s.map = ses.map)

\* link_drain_rx in time: the link's state, the ring's messages, the next frame.
Retire(msg) ==
  LET waiting == ConsumedBySet(set, held)
      out == FillTx(Consume(Consume(SetLink(ses, TRUE), set, held), waiting, msg))
  IN  /\ ses' = out.session
      /\ set' = ConsumedBySet(waiting, msg)
      /\ held' = None
      /\ ring' = <<ring[2], out.frame>>
      /\ Sighted(out.session)

\* A completion that retires nothing: the bank that went out goes out again.
Rotate == ring' = <<ring[2], ring[1]>> /\ UNCHANGED <<held, ses, set, blind>>

\* What the slot brings the MCU.
Received(cut) == IF cut THEN None ELSE tx

\* A slot with the link up: in time, or the interrupt missed, or, a rotation
\* behind, with no bank to retire.
SlotOnTime(cut) == ~late /\ late' = FALSE /\ Retire(Received(cut))
SlotLate == ~late /\ Fault /\ late' = TRUE /\ Rotate
SlotStalled == late /\ late' = FALSE /\ Rotate

LosesMessage == lost' = (lost \/ tx # None)

Slot ==
  /\ link = "up"
  /\ Settled
  /\ tx' = None
  /\ \/ SlotOnTime(FALSE) /\ Published(ring[1]) /\ NoFault /\ UNCHANGED lost
     \/ SlotOnTime(FALSE) /\ ring[1] # Idle /\ Fault /\ UNCHANGED <<rx, lost>>
     \/ SlotOnTime(TRUE) /\ tx # None /\ Fault /\ Published(ring[1]) /\ LosesMessage
     \/ SlotLate /\ Published(ring[1]) /\ LosesMessage
     \/ SlotStalled /\ Published(ring[1]) /\ LosesMessage /\ NoFault
  /\ UNCHANGED <<link_ready, deviceVars, staged, last_rx, store, status, export, export_pending,
                 monitor, link, snap, acted>>

-----------------------------------------------------------------------------
\* link_descriptor_service: the session is reconciled with the set, then a
\* snapshot of a slot that is to be judged is taken.
Reconciled ==
  IF set.desc = 0 THEN ses ELSE SyncDescriptors(ses, set.desc, complete_mask(set))

Redirtied ==
  IF set.desc # 0 /\ ses.desc = set.desc
  THEN Redirty(set, complete_mask(set) \ Reconciled.judged) ELSE set.dirty

Service ==
  /\ snap = None
  /\ ses' = Reconciled
  /\ \/ Redirtied = {} /\ UNCHANGED <<set, snap>>
     \/ /\ Redirtied # {}
        /\ set' = [set EXCEPT !.dirty = Redirtied \ {Lowest(Redirtied)}]
        /\ snap' = Snapshot(set, Lowest(Redirtied))
  /\ UNCHANGED <<planeVars, link, ring, late, held, historyVars>>

\* The verdict on the bytes compiled, if they are still those of the set.
Offer ==
  /\ snap # None
  /\ snap' = None
  /\ ses' = IF snapshot_valid(set, snap)
            THEN OfferLayout(ses, snap.desc, snap.slot, snap.interface,
                             Devices[snap.desc][snap.interface])
            ELSE ses
  /\ UNCHANGED <<planeVars, link, ring, late, held, set, historyVars>>

Request(kind) ==
  /\ RequestAccepted(ses, kind)
  /\ requests < MaxRequests
  /\ requests' = requests + 1
  /\ ses' = [ses EXCEPT !.req = [kind |-> kind, id |-> requests + 1]]
  /\ UNCHANGED <<planeVars, link, ring, late, held, set, snap, acted, lost, blind, faults>>

-----------------------------------------------------------------------------
\* MCU_READY_LOW.  A frame may be on the wire.  The FPGA drops what it gets by
\* it; the interrupt, if it still runs, puts what it got in the ring, where it
\* waits for the link to be up again.
ReadyLow ==
  /\ link = "up"
  /\ Fault
  /\ link' = "low"
  /\ LinkFalls
  /\ \/ tx' = tx /\ blind' = TRUE /\ UNCHANGED <<ses, held, lost>>
     \/ tx # None /\ tx' = None /\ lost' = TRUE /\ blind' = TRUE /\ UNCHANGED <<ses, held>>
     \/ tx # None /\ tx' = None /\ held' = tx /\ ses' = SetLink(ses, FALSE)
           /\ blind' = FALSE /\ UNCHANGED lost
  /\ UNCHANGED <<ring, late, set, snap, acted>>

\* The interrupt runs before REQUESTS_OFF masks it: the only way the session
\* gets to know.
SlotLow ==
  /\ link = "low"
  /\ ses.phase # "WAIT_LINK"
  /\ ses' = SetLink(ses, FALSE)
  /\ blind' = FALSE
  /\ UNCHANGED <<planeVars, link, ring, late, held, set, snap, acted, lost, faults, requests>>

\* REQUESTS_OFF up to REARM_RINGS.
RequestsOff ==
  /\ link = "low"
  /\ link' = "off"
  /\ ring' = IdleRing
  /\ late' = FALSE
  /\ UNCHANGED <<planeVars, held, ses, set, snap, historyVars>>

\* REQUESTS_ON, MCU_READY_HIGH; also the end of link_init.
ReadyHigh ==
  /\ link = "off"
  /\ link' = "up"
  /\ LinkRises
  /\ UNCHANGED <<ring, late, held, ses, set, snap, historyVars>>

\* The MCU starts again; the FPGA's pull-down holds mcu_ready low.
Reset ==
  /\ Fault
  /\ link' = "off" /\ ring' = IdleRing /\ late' = FALSE /\ held' = None
  /\ ses' = SessionInit(ses.boot + 1) /\ set' = EmptySet /\ snap' = None
  /\ LinkFalls
  /\ blind' = FALSE
  /\ \/ tx' = tx /\ lost' = lost
     \/ tx # None /\ tx' = None /\ lost' = TRUE
  /\ UNCHANGED acted

-----------------------------------------------------------------------------
McuUnchanged == UNCHANGED <<mcuVars, historyVars>>

\* The engine commits the command, or its endpoint is in boot protocol and the
\* command is dropped.
EngineCommits ==
  /\ CommandLeaves
  /\ acted' = Append(acted, [request |-> staged.frame.arg, upload |-> UploadOf(staged.frame)])
  /\ UNCHANGED <<mcuVars, lost, blind, faults, requests>>

Device ==
  \/ PollFailure /\ Fault /\ UNCHANGED <<mcuVars, acted, lost, blind>>
  \/ (Detach \/ Enumerated) /\ McuUnchanged

Next ==
  \/ Slot
  \/ PlaneWork /\ McuUnchanged
  \/ EngineCommits
  \/ CommandLeaves /\ McuUnchanged
  \/ Device
  \/ \E i \in Interfaces(generation) : Report(i) /\ McuUnchanged
  \/ Service \/ Offer
  \/ \E kind \in Kinds : Request(kind)
  \/ ReadyLow \/ SlotLow \/ RequestsOff \/ ReadyHigh
  \/ Reset

Spec == Init /\ [][Next]_vars

\* Slots come at 8 kHz; the gateware and the firmware do what they can do; a
\* fresh command is committed within a report; and the interface in use reports
\* now and then.
Fairness ==
  /\ WF_vars(Slot \/ (PlaneWork /\ McuUnchanged))
  /\ WF_vars(EngineCommits)
  /\ WF_vars(Service \/ Offer)
  /\ WF_vars(RequestsOff \/ ReadyHigh)
  /\ SF_vars(Report(ses.layout.interface) /\ McuUnchanged)

FairSpec == Spec /\ Fairness

-----------------------------------------------------------------------------
\* A map that is active is one upload, complete and in order (CommitMatches,
\* EntriesMatch): never the entries of two, with a frame lost between them or
\* the MCU started again in the middle.
ActiveMapOfOneUpload ==
  active_valid(store, generation) =>
    /\ DOMAIN store.bank.entries = 1..EntryCount
    /\ \A i \in 1..EntryCount :
         /\ store.bank.entries[i].arg = i - 1
         /\ store.bank.entries[i].map = store.bank.map
         /\ store.bank.entries[i].desc = generation
         /\ store.bank.entries[i].boot = store.bank.entries[1].boot

\* A session that injects into the device attached holds the map that is active.
MapAgreement ==
  ses.phase = "INJECTING" /\ link = "up" /\ session /\ ses.desc = generation =>
    active_valid(store, generation) /\ store.bank.map = ses.active

\* The same, but for a recovery the session has not seen: a session that was
\* told of the loss of the link (SetLink) never takes the old map up again.
MapAgreementSeen == blind \/ MapAgreement

\* NO_MOUSE is the verdict on the device attached only if none of its
\* interfaces can be injected into (settle_step), as long as no message of
\* the FPGA was lost: quiet slots alone do not do, with the foreground behind.
\* Of a device whose session has failed nothing more is exported.
NoMouseSound ==
  ses.phase = "NO_MOUSE" /\ session /\ ses.desc = generation /\ ~lost =>
    \A i \in Interfaces(generation) : Devices[generation][i] = "NONE"

\* A session with a layout ends up injecting, whatever is lost of its upload
\* and of the answer (commit_wait), unless the device or the layout goes away.
UploadsEnd ==
  (ses.phase = "WAIT_REPORT" /\ session /\ ses.desc = generation)
    ~> (ses.phase \in {"INJECTING", "WAIT_DESCRIPTOR"} \/ ~session)

-----------------------------------------------------------------------------
(***************************************************************************)
(* The link implements InjectionService: the upload last received is the   *)
(* map store's bank, valid or not.                                         *)
(***************************************************************************)
Promised ==
  INSTANCE InjectionService WITH
    Uploads <- [map : 0..MapModulus - 1, desc : DOMAIN Devices, boot : Nat],
    device <- IF session THEN generation ELSE 0,
    upload <- IF store.bank.entries = <<>> THEN NoUpload ELSE UploadOf(store.bank.entries[1]),
    in_force <- active_valid(store, generation) /\ ~invalidate,
    asked <- requests,
    done <- acted

\* Over losses, duplicates, late interrupts, recoveries and resets, a command is
\* committed only under the upload it cites, of the run of the firmware that
\* made it, for the device attached, in the order of the requests and once
\* (command_fresh, sequence_class_allowed); a map that was invalidated is not
\* active again.
ImplementsService == Promised!Spec
=============================================================================
