# TLA+ models of the HID clone

The repository turns a Cynthion FPGA board into a transparent HID clone. A real
mouse, keyboard or pad is plugged into the board; the board enumerates it as a
USB host, presents a copy of it to the PC, carries every report and class
request between the two, and can merge injected movement into the reports. A
microcontroller on an SPI link compiles the injection map and sends the
commands. This directory holds TLA+ models of that system, the TLC runs that
check them, and TLAPS proofs about them.

Paths below are relative to the repository: `gw/` stands for
`src/hurra_cynthion/`, `mcu/` for `firmware/mcxn947/src/`.

## 1. The system

```
 real device                        FPGA (one 60 MHz clock, "usb")                       PC
 ---------- bus ---- transaction engine <- arbiter <- pollers, OUT writer
                                                   <- control engine <- class relay <- class handler <- EP0
                                                   <- SOF scheduler      boot tracker
                     pollers -> merge mux -> injection engine -> report relay -> IN endpoints
                     enumerator -> descriptor store -> streamer -> clone's descriptors
                                      |                   ^
                                export v                  | map store, commands
                                  SPI link (32-byte slot every 125 us, both ways)
                                      |
 MCU, core 0: retirement ISR -> ring -> session (map upload, commands) <- console
      core 1: panel, reads what core 0 publishes in a shared window
```

All gateware blocks are Amaranth modules in one clock domain. They exchange
registers and combinational signals, so the interleavings that matter are those
of cycles: which two events fall into the same cycle, or one cycle apart. On the
MCU they are those of an interrupt and the foreground, and of two cores that
share memory; between the chips, those of slots that are lost, late or repeated.

### Inventory

Each component with its state, what is hard, and when it is correct.

| Component | State | What is hard | Correct when | Module |
|---|---|---|---|---|
| Class-request handler, `gw/device_control.py` | FSM of 8 states, `defer_timer`, `setup_pending` | a new SETUP in any cycle of an old transfer; time-outs racing answers | the PC gets the answer to its own current request, nothing else is forwarded, nothing twice | `HIDClassRequestHandler` |
| Class relay, `gw/control_relay.py` | FSM of 5 states, latched SETUP, OUT bytes | two sources (PC and replay); the device lost between any two states | bytes in equal bytes out; always given back | `ControlRelay` |
| Boot-protocol tracker, `gw/boot_protocol.py` | `boot_mask`, `pending`, the snoop's two stages | a PC request that overtakes a replay; a second reset in mid-replay | the mask follows the device; no replay undoes the PC's choice | `BootProtocolTracker` |
| Interrupt-IN poller, `gw/poller.py` | buffer, data toggle, errors, interval | lost ACKs, odd lengths, losing the bus in mid-copy | every report handed on once, in order | `InterruptInPoller` |
| OUT writer, `gw/out_writer.py` | one packet, toggle, attempts | retry after a lost handshake; session resets | packets arrive once, in order | `InterruptOutWriter` |
| Arbiter, `gw/host.py` | round-robin pointer, owner | results are consumed one cycle after `done`; the owner changes under a running transaction | one owner; nobody starves | `USBHostTransactionArbiter` |
| Transaction engine, `gw/transaction.py` | FSM of 12 states, receive buffer, result | disconnection in every state | one result per start | `USBHostTransactionEngine` |
| Control engine, SOFs, intervals, `gw/control.py`, `scheduler.py`, `intervals.py` | stages, counts, NAK timer, pending SOF | the NAK time-out against a running transaction | transfers what it was given | as bus clients in `HostBus` |
| Merge mux, `gw/host.py` | `sel`, `locked` | a source that dies in mid-report | reports are not interleaved | `ReportMergeMux` |
| Injection engine, `gw/injection.py` | report buffer, FSM of about 35 states, a record per layout, templates | commit only with the last byte; map or device lost at any point; commands staged in mid-transaction | what is acknowledged goes out, once | `InjectionEngine`, `ReportBuffer` |
| Report relay, `gw/relay.py` | one ring per endpoint | admission is decided before the bytes come; flush in mid-report | no overflow, no partial report, no back-pressure | `ReportRelay` |
| Enumerator, `gw/enumerator.py` | FSM, retries, endpoint table | losing or swapping the device at any step; refetched descriptors | `ready` only for a configured device, wholly captured; the next device is always enumerated | `Enumerator`, `ConfigurationParser` |
| Descriptor store and streamer, `gw/descriptors.py`, `device_control.py` | RAM, directory, scans | captures aborted at any byte; a start in the cycle of the answer | complete descriptors of one device only; the byte the PC asked for | `DescriptorStore`, `DescriptorStreamer` |
| Descriptor export and frame builder, `gw/descriptor_export.py`, part of `gateware.py` and `spi_link.py` | slot, offset, a byte under way; who owns the builder; one frame | other senders' frames between two fragments; the link or the device lost in mid-fragment | every report descriptor is sent whole, once and in order | `DescriptorExport` |
| Injection plane, map store, monitor, SPI master, `gw/gateware.py`, `injection_map.py`, `report_monitor.py`, `spi_link.py` | staged frame, sequence window, candidate and active map, one-frame queues | BEGINs, invalidations and generations between any two frames | only complete uploads become active; a command acts once, under the map it cites | `InjectionPlane`, `InjectionMapStore` |
| Injection session, `mcu/inj_session.c` | 9 phases, request slot, generations, timers | interrupt against foreground; lost or late MAP_STATUS | commands cite the map the FPGA has; a sound NO_MOUSE verdict | `InjSession` |
| Descriptor set, `mcu/hid_descriptor_set.c` | slots, dirty and complete masks | a descriptor replaced while it is compiled | verdicts are about the bytes judged | `HidDescriptorSet` |
| Link and recovery, `mcu/link.c`, `link_retire.c`, `link_recovery.c` | DMA banks, receive ring, `s_ready` | late interrupts, a stopped link, a reset | the link comes back, in agreement with the FPGA | `InjectionLink` |
| Two-core window, `mcu/link_snapshot.c`, `shared_window.c`, `core1_release.c`, `display.c` | two sequence locks in memory that survives a reset | torn reads, resets in mid-publication | a reader sees one publication, and the last one comes to the panel | `SharedWindow` |

`PROJECT.json` lists every component with its files, and under `hazards` each
hard behaviour at its line, with the properties that watch it.

## 2. What is modelled, and where

A module per component, and a module that composes those that talk to each
other. Where the gateware matters cycle by cycle, the composing module's `Next`
is one cycle of the clock: every component moves, and reads the others' registers
and combinational outputs as parameters of its actions. A component's module has
one action (or one operator on its record) per FSM state; guards are the state's
conditions in order, primed variables its assignments. Where what matters is
which pieces of work overlap (the link, the injection engine), a step is a piece
of work, and the module's head says what is atomic and why.

**ControlForward** composes `HIDClassRequestHandler`, `ControlRelay` and
`BootProtocolTracker` with the PC, the enumerator's `ready` and the control
engine. The PC sends SETUPs whenever its bus is idle, abandoning what went
before, and resends OUT packets after NAK, silence or a lost ACK. A SETUP has an
`id`; OUT bytes are pairs (SETUP, position), so that bytes of two requests differ.

**HostBus** composes `InterruptInPoller` (a record per endpoint),
`InterruptOutWriter`, `USBHostTransactionEngine` and `USBHostTransactionArbiter`
with SOFs, the control engine as the others see it, and a device with data
toggles. A state that waits for the bus waits any number of cycles.

**ReportPath** composes `ReportMergeMux`, `ReportBuffer` (the injection engine as
the report path sees it: its buffer, indices as wide as the code's, and the
templates injected reports are made of) and `ReportRelay`, between the pollers'
buffers and the PC's reads.

**InjectionEngine** is the rest of `gw/injection.py`: capture, seeding, the scan
of still devices, preparation, mutation with clamping and residuals, output,
commit and acknowledgement, over a record per layout, with maps and commands
replaced or lost between any two steps. `ReportBuffer` and `InjectionEngine` are
two views of one FSM; the first knows bytes, the second what they mean.

**InjectionLink** composes `InjSession`, `HidDescriptorSet`, `InjectionPlane`
(which extends `InjectionMapStore` and `InjectionWire`) and the slots between the
chips: two TX banks the DMA reads in turn, so that a frame leaves two slots after
it was written; lost frames; an interrupt that comes too late; the retirement
ring, which can hold a message over a recovery; the recovery ladder; a reset of
the MCU; a failed poll. The foreground compiles a snapshot of a descriptor while
the interrupt changes the set, and its verdict is dropped if the slot changed.

**InjectionService** is what that system promises, without a link: requests are
acted on in order, none twice, each under the upload in force; an upload that is
revoked never comes back. `InjectionLink!ImplementsService` is the refinement:
the upload last received is the map store's bank, valid or not; `device` is the
generation while the session is active; `done` is what the engine committed.

**Enumeration** composes `Enumerator` (every state of the FSM, with attach and
detach debouncing, the high-speed chirp and retries) with a control engine, the
store's capture side, the pollers' failure and the clone's connection, and with
devices that are plugged in and pulled out at any cycle. An answer is a header
and a body. **ConfigurationParser** has the bytes: the enumerator's byte-wise
parser of the configuration descriptor and its Python mirror
`parse_mouse_configuration`, compared on one device after the other.

**DescriptorServe** composes `DescriptorStore` (capture, directory scan, export
and serve sides, cycle by cycle), `DescriptorStreamer` and `DescriptorExport`
with a writer that is interrupted at any byte, a PC, and the link to the MCU.
`DescriptorExport` is the exporter, which walks the directory slot by slot and
sends each report descriptor in fragments; the part of the plane that starts it
and that gives the frame builder to one sender at a time; and the builder, which
asks for a fragment's bytes one by one and is handed each two cycles later. Other
senders' frames come and go between two fragments. A byte is
<<descriptor, session, position>>; `told`, which nobody keeps, is what was queued
for the MCU in this export. In `InjectionLink` a descriptor is one message; that
its fragments are whole is shown here.

**SharedWindow** has both sequence locks of the MCU's window access by access:
core 0 publishing a snapshot (in the interrupt) and a descriptor (in the
foreground, interrupts masked), core 1 reading both between and within frames,
core 0's console reading the first, core 1 halted and released, and a reset of
the chip at any access, which the window survives.

## 3. The runs

| Run | Question | Bounds, and why they are enough | States |
|---|---|---|---|
| `forward` | Are class requests kept apart, and is the boot mask right, when the PC abandons transfers and a reset starts replays? | 3 SETUPs: one in the relay, one waiting, one that replaces it; packets of 2 bytes against a buffer of 2, so that a request fits in one packet and not at all; two interfaces on two endpoints; 1 session reset; a time-out of 3 cycles | 430,614 |
| `live` | Is everything given back (`Settles`), and does the PC hear of success only where the device carried the request out (`SuccessIsReal`)? | 2 SETUPs, 1 reset, 1 loss of the device, 1 lost handshake; packets of 1 byte and requests of up to 2 | 101,261 |
| `replay_choice` | Does a replay respect what the PC chose after the reset? **No.** | | about 34,000 |
| `reports` | Do reports and an OUT packet survive a lossy bus and a lost device, in order and once? | reports of one byte, too long, and full; one lost packet against 2 attempts; one loss of the device | 610,083 |
| `bus_live` | Is any poller starved? | two ports and the writer, SOFs and forwards without end, NAK time-outs at any cycle, one session reset | 272,989 |
| `report_path` | Are reports whole and in order, injected ones too, and is none held up for ever? | a long and a short report, two sources, one of them not served, a queue for one report, one loss of the device, one flush | 113,392 |
| `engine` | Is what was acknowledged sent, exactly once, and every command served? | two layouts, two map generations (one NATIVE_ONLY), four kinds of command, values that overflow a clamp of 1, 2 commands, 2 maps, 1 loss, 1 report, 1 change to boot protocol | 1,276,622 |
| `injection` | Does the link implement `InjectionService`, do both ends agree, and do uploads end? | a composite mouse replaced by a pad, maps of 2 entries, 1 request, 1 fault of any kind at any place | 581,263 |
| `parser` | Is an accepted device relayed whole, and does the mirror agree? | configurations of up to 8 descriptors from the boundary cases: odd lengths, alternate settings, duplicates, reserved bits, misstated totals; limits 2 | 18,080 |
| `serve` | Does the PC get the bytes it asked for, and the MCU whole report descriptors? | two sessions; a descriptor captured twice and one that does not fit in 7 bytes of RAM; fragments of 2 bytes: descriptors of one whole fragment, and of one and a half; 2 SETUPs (sent while nothing is exported: `MaxBusySetups`; the PC's reads and the exporter's have ports of their own, and an export that follows a loss of the link runs beside transfers all the same); 1 loss of the link (`MaxLosses`), other frames at any time | 250,298 |
| `enumeration` | Does READY mean a device wholly captured, and does the host always recover? | a full-speed device with two interfaces and strings, a high-speed one without, a low-speed one, which is refused; an unplug at high speed that the PHY reports or does not; 2 plugs, 1 fault, 2 attempts; times of 1 to 10 cycles in the order of the real ones | 419,706 |
| `window` | Is what a core reads one publication, and does the panel catch up? | two fields, two attempts, two publications (one per attempt), one reset or halt; three descriptors of two generations | 1,102,607 |

Larger instances were checked by hand, beyond the time a run may take:
`forward` with a loss of the device (1.37 million states) or 2 resets (1.32);
`injection` with 2 requests and 1 fault (1.1, with liveness) and with 1 request
and 2 faults (6.8, safety); `engine` with a click of another button besides (1.8,
with liveness), with a second report (5.3, safety) and with a third map (2.8,
safety); `window` with a reset and a halt (2.2); `bus_live` with 3 ports; `serve`
with a SETUP beside the first export (0.45). All pass.

`engine`, `parser` and `window` switch deadlock checking off: with the bounds
used up, the system may idle. The other runs check it.

The deep properties, by hazard:

* *One answer, once.* `NoStaleAnswer`, `OnlyClassForwarded`, `ForwardedOnce`,
  `RelayNeverOrphaned`, `BytesInBytesOut`; `SupersededReplayNeverIssued` and
  `MaskTracksDevice` for replays.
* *One owner, in order.* `SingleOwner`, `InOrderOnce`, `OutInOrderOnce`,
  `WholeReports`, `EachReportTaken`, `NoStarvation`.
* *Success is real.* `SuccessIsReal`: what the device carried out, not what the
  relay was given.
* *Acknowledged means sent.* `RecordsAsPromised`: a layout's record holds exactly
  the motion acknowledged and not yet sent, and a click ends in the buttons held
  before it; `CommandsServed`.
* *Both ends agree.* `ActiveMapOfOneUpload`, `MapAgreementSeen`, `NoMouseSound`,
  `ImplementsService`, `UploadsEnd`.
* *Ready means complete.* `ReadyMeansComplete`, `NoOverlap`, `SpeedAgreed`,
  `CloneSeesFrozenStore`, `EnumerationEnds`, `Recovers`; `TableIsComplete`,
  `SecondFetchAgrees`, `MirrorsWithoutSecondHeader`.
* *The right bytes.* `EntriesWhole`, `ExportedWhole`, `RightByte`,
  `TransferComplete`, `EveryInAnswered`.
* *No torn reads.* `SnapshotWhole`, `PanelCatchesUp`.

### Fairness

The clock ticks. `ControlForward`, `ReportPath` and `HostBus` say so as
`ClockRuns`, which is `WF_vars(Next)` in a form cheaper to check; `DescriptorServe`
as `WF_vars(Ready)`, a cycle, while the PC waits for a packet, in which the
transmitter takes a byte and neither the writer nor the PC does anything; `Enumeration` over the cycles without an
event from outside. Beyond that,

* `ControlForward`: the control engine finishes every transfer: each wait state
  of `gw/control.py` ends in its NAK time-out or in the loss of the device.
* `ReportPath`: the states between capture and output, and the template copy,
  end: each counts through a bounded number of bytes or map entries.
* `HostBus`: nothing more. `NoStarvation` assumes in its own formula that the
  bus keeps becoming free, which is the device's and the PC's doing.
* `Enumeration`: a transfer is decided (the control engine's time-outs), a
  device's chirp ends, and polls that nothing answers fail.
* `InjectionLink`: slots come and the plane works; a fresh command is committed
  within a report; the foreground and the recovery run; and, strongly, the
  interface in use reports now and then, since the session leaves WAIT_REPORT
  only with a report.
* `InjectionEngine`: the FSM works, stale commands are dropped, the clone's
  queue takes the last byte, a due scan runs; seeding strongly, because reports
  are at least 7500 cycles apart and cannot keep it from going on for ever.
* `SharedWindow`: both cores run; a successful read that starts a frame strongly,
  since publications are 125 us apart and a read takes well under one.

Nothing is assumed of the PC, nor of a device beyond this: they may stop at any
point.

## 4. Where the code departs from its own documents

One departure is a run that TLC ends with a counterexample:

* `replay_choice`. A session reset that arrives while the tracker is busy waits
  in `trigger_seen`. When it is acted on, `boot_mask` already has the PC's later
  SET_PROTOCOL(boot), and the replay undoes it (`gw/boot_protocol.py:130` against
  its own line 25).

The models show others, each with the change of an instance, or the definition,
that makes TLC show it:

* *A lost ACK* (`MaxLostAcks = 1` and `MaxPacket = 1` in `forward`, `BytesInBytesOut`). The handler
  captures every OUT packet without looking at its data PID
  (`gw/device_control.py:621`); a packet the PC resends because its ACK was lost
  is captured again, against "bytes in equal bytes out" (`gw/control_relay.py:5`).
* *Dead ends* (in the run `enumeration`: `Recovers` without `DeadEnd`). A
  low-speed device is refused before the host counts as connected;
  `detach_counter` then stays 0 (`gw/enumerator.py:351`), so `detached`, "the
  single recovery path" (line 284), never holds, and `enable` is tied to 1. The
  other is ERROR at high speed: a detach then needs `host_disconnect`, of which
  line 290 says that on hardware it did not assert on unplug;
  `device_unresponsive`, which is there for that, comes from pollers that run in
  READY only. `Recovers` has both as the cases in which the host need not come
  back, and every other unplug, seen by the PHY or not, must lead back.
* *A time-out in mid-transaction* (`NakTimeouts = TRUE`; no property of a run
  forbids it, and `bus_live` includes it). The NAK time-out ends a transfer
  whatever its transaction is doing (`gw/control.py:333`); the data stage on the
  wire goes on with the bytes of whichever port is selected next, against the
  same line of `gw/control_relay.py`.
* *Splice and wedge* (without `detaches = 0` in `WholeReports`; with
  `BufferBytes = MaxReportBytes = 2` in `report_path`, `EachReportTaken`). When a poller loses its device in
  mid-report the mux unlocks, and the injection engine takes the next report for
  the rest of the first. A splice of 65 bytes is one more than `output_index` can
  count (`gw/injection.py:237`), and OUTPUT never ends.
* *Seeding mid-fill* (in the run `engine`: `SeedsEveryLayout` without `Missed`).
  The restart of the walk (`gw/injection.py:1797`, "a map activated mid-walk
  restarts it from slot 0") is lost when the map is activated while SEED_FILL
  advances the index. The history variable `race` then holds "fill", and the
  first layout is promised no record.
* *Boot protocol mid-transaction* (in the run `engine`: `MotionConserved`). A
  command whose endpoint turns to boot protocol while it is prepared is dropped
  as stale (`gw/gateware.py:285`), though the engine goes on to commit it: the
  acknowledgement is not the plane's, against `gw/injection.py:566`. `race` then
  holds "protocol", and `RecordsAsPromised` says nothing more of that map.
* *A recovery the session does not see.* `s_ready` may fall and rise with the
  interrupt masked (`mcu/link.c:1105`); the session then goes on INJECTING with
  a map the FPGA has dropped. `MapAgreementSeen` excepts it (`blind`).
* *The configuration's mirror*, which "must agree case for case"
  (`gw/enumerator.py:134`; `AgreesCaseForCase`, that is,
  `MirrorsWithoutSecondHeader` without its premise). The gateware takes every
  descriptor of type 2 for the header, also one in the body: it checks its length
  and value and takes its number of interfaces (`gw/enumerator.py:952` to 966),
  where the mirror passes over it. And since the gateware compares length and
  value with the device's first answer, but the mirror is given the second one
  only, the two also differ where the two answers do; that case `SecondFetchAgrees`
  has.
* *The panel, a torn copy* (`ShownWhole`). `mcu/display.c:603` copies into
  `descriptor_bytes`, which is what is shown, before it compares the sequence;
  after a torn copy the panel decodes a splice under the old header until the
  next frame, against "Either way, keep the previous copy" (line 583).
* *The panel, equal lengths* (two descriptors of one generation with one length
  in `MCSharedWindow`, `PanelCatchesUp`). The skip test (`mcu/display.c:598`) compares generation
  and length only; of two interfaces with equally long descriptors the panel
  keeps the first, though an injectable one "turns up later" (`mcu/link.c:806`).
* `mcu/shared_window.h:36` says that `length` returns to 0 on re-enumeration;
  nothing but the reset of the window clears it.
* A handler that times out in CAPTURE_OUT while a packet of the request is on the
  wire is back in IDLE at the packet's end and gives it no handshake, against "It
  must get a handshake" (`gw/device_control.py:594`); a deferral accepted in the
  very cycle of its time-out passes the equality test and waits for the 21-bit
  counter to wrap (line 671).
* An OUT packet given up after its attempts leaves the toggle where it was; had
  the device taken it, the next is discarded as its duplicate and counts as
  written (`gw/out_writer.py:229`).

Two smaller observations: BUS_RESET, the chirp states and RESET_RECOVERY ignore
`detached`, so a device pulled out there is noticed at the end of the reset; and
CHIRP_AWAIT_DEVICE_END has no time-out of its own.

## 5. What is proved

TLAPS, for every value of the constants that satisfies the modules' assumptions
(no bound on requests, endpoints, packet sizes, losses or resets).

**ControlForwardProofs.** `TypeCorrect` first; its lemmas are one per component
(`HandlerType`, `RelayType`, `TrackerType`, `EnvironmentType`). The four safety
properties are not inductive: `NoStaleAnswer` says that an awaited answer belongs
to the current SETUP, and to preserve that one must know that the handler leaves
those states before a new SETUP is latched, that a replay is never mistaken for a
PC request, and that the relay is idle whenever nobody waits. That is `Coupled`:
handler and relay agree on whose request is in flight. `Ordered` adds that
whatever is still to be offered is newer than all that was started. `Coupled`
needs `TypeOK`; `Ordered` needs `Coupled`. From them: `NoStaleAnswer`,
`OnlyClassForwarded`, `ForwardedOnce`, `RelayNeverOrphaned`. `SuccessIsReal` has an
invariant of its own, `Carried`: a success on its way from the engine through the
relay to the handler is of the latched request, and that is the one the device
carried out last. With `Coupled` the latched request is the PC's current one.

`SupersededReplayNeverIssued` and `MaskTracksDevice` speak of quiet moments, and
their invariant of the moments between (`ReplayInvariant`). One request is in
flight at a time, so that what a completion pulse stands for is still latched
(`OneInFlight`); the replay in the relay is the one the tracker waits for
(`ReplayTracked`). A success of the device passes through stages: the engine's
done, the relay's pulse, the snoop's decode, or, for a replay, the relay's
COMPLETE and its pulse. `Unapplied(k)` says that slot k's is in one of them,
`ToApply` what it carries, and `MaskFollowsDevice` that the device then has just
that, and else what the mask says. The step has three lemmas: a success enters
the first stage (`SuccessBegins`), moves on or is applied (`SuccessMoves`), and
nothing else changes the mask (`NothingToApply`). `SupersededDropped` has the
same pipeline in it: a slot of an interface the PC has set is pending no more,
or the snoop holds the request, and then no offer can be accepted.

`BytesInBytesOut` is proved while no ACK was lost (the instance has
`MaxLostAcks = 0`; with a lost one it is false, section 4). While the relay
captures (`Collecting`), handler and relay have counted the same bytes, and the
PC resumes after just these when the packet under way is not one of the capture;
a SETUP that waits has had none of its bytes acknowledged (`NothingSent`).

**HostBusProofs.** `EngineHasOneOwner` (`SingleOwner`), with `HostTypes`. The
invariant `IInv` adds to `SingleOwner` that a result on the engine's outputs is
well typed while a port may consume it, that a poller with its errors used up
has failed (`Spent`: else a completed poll could count past the limit), and that
the control engine is in a phase where it owns the bus only when it waits or
streams (`ControlInPhase`). One lemma per component's step, then `NextIInv`.

`ReportsInOrderOnce` (`InOrderOnce`) and `PacketsInOrderOnce` (`OutInOrderOnce`)
rest on `BusSound`: whose the transaction under way is, or the result that is
out (`OwnerSound`), that a port waits or copies or offers and never two of these
(`PollersSound`, `WriterSound`), and that a host which has not been ready for a
cycle has nothing of an earlier device (`Forgotten`). The order of the reports is
then an argument about the data toggles alone. `Got(k)` is the last report that
has arrived: the one before `dev_report` while the toggles of poller and device
agree, that one itself while they differ, that is, while the device has yet to
hear that it was taken. `Receiving` says that the shared receive buffer holds
just that report from its good packet until it is copied out, and `Order` that
the reports taken are those up to `Got(k)` that fit; the empty and the oversize
ones move the toggle and are passed over. For the OUT endpoint `AcceptedSound`
says that while the toggles agree the packet in the writer's memory is newer than
all the device took, and `Counted` that while they differ the device has one more
than is counted. After a write is given up it is only the number that is right
(section 4).

**SharedWindowProofs.** `SnapshotsAreWhole` (`SnapshotWhole`). The invariant:
from the boot on the sequence is odd exactly while the interrupt publishes
(`Parity`), the fields it has written are of this publication and, when it does
not write, all are of one (`Written`), and as long as the sequence has not moved
a read has what is in the window (`Reading`). `Written` holds only once the
window has been reset: after a reset of the chip the memory may be torn, with an
odd sequence, which is why `shared_window_reset` must clear it before anybody
reads. A read that ends with the sequence unmoved then copied one publication.

**ReportPathProofs.** Three layers. `PathInvariant` (`TInv`) holds of every
behaviour: types, pollers that hold the rest of a report or nothing
(`SourcesSound`), indices inside what the engine has captured (`EngineSound`),
and no head without an entry (`HeadsSound`). `NoQueueOverflows` adds, as long as
no report is longer than the buffer (`Unspliced`), `InStep` (a report is under
way in the relay exactly while the engine sends it) and `Room` (an admitted
report has room to its end): admission is decided at the first byte and holds to
the last. The condition is needed: after the loss of a device a splice (section
4) may be longer than the buffer. `ReportsStayWhole` (`WholeReports`) is proved
from `Whole`, inductive while no device was lost: what is captured is a prefix of
the report its source still offers (`Capturing`), what the engine holds is one
whole report (`Held`), reports get newer from the PC back to the source (`Ages`),
every entry of a queue follows the one before it (`Chained`), and a stream ends
inside the report under way or at a report's end (`Ends`).
`NoQueueOverflowsWithDevice` combines the two.

**InjectionLinkProofs.** `LinkInvariant` has three parts: types; `Forgotten`, the
plane holds no upload while the link or the session that sent it is gone; and
what each place holds of an upload belongs to one generation (`FramesSound` for
the slots between the chips, `ReceivingSound` for a transfer under way,
`BankSound` for the map store's bank). `OneUpload` (`ActiveMapOfOneUpload`)
follows: whatever frames are lost, and wherever a recovery falls, the active
bank was filled by one upload from its first entry to its commit.

`LinkImplementsService`: every behaviour of the link in which generations do not
run out implements `InjectionService`. Initial states map to initial states; the
step simulation takes the actions one by one, as a stutter (`ServiceStutters`) or as `Revoke`, `Detach`, `Attach`, `Ask`,
`Receive` or `Act`. What it needs to know of a state is `SInv`: everything in
flight is older than what the session will send next (`Past`), is of a device up
to the one attached (`Bounded`) and not of one still being enumerated
(`Unheard`); an upload's generation names one device (`Named`); the banks go out
in the order they were filled (`Emitted`); what gets past the sequence check is
new, or of a device that is gone (`Ordered`); and a map that is received replaces
an older one (`Replaces`). The
hypothesis `[]NoWrap` (`ses.map < MapModulus - 1`) excludes runs of more than
65534 uploads: the model reuses generations as the code does
(`mcu/inj_session.c:30`), and then an upload revoked long ago has the name of a
later one, which "never comes back" cannot tell apart.

`MapAgreed` (`MapAgreementSeen`) needs no such hypothesis. Its invariant, `AInv`,
says what may be on its way between session and plane in each phase of an upload.
Going out: no frame is of a device the session has not heard of (`Foreign`,
`Heard`), commands of an earlier map are left only when no map of this device can
be active (`Spent`), and the two banks hold frames of this upload (`BanksFollow`).
Coming back: while entries are sent nothing is validated, and the one `MAP_STATUS`
the plane may still hold from an earlier upload leaves before the second entry
goes out (`PlaneFollows`). Hence the first answer after `MAP_COMMIT` is of this
upload, although a generation alone would not tell (`Agreement`). What a slot does
has one lemma per context: banks that rotate (`RotatesA`), the interrupt in time
(`RetiresA`), which meets a session that is up (`RetireUp`) or back from
`WAIT_LINK` (`RetireBack`).

`VerdictRight` (`NoMouseSound`) is about time: the session says NO_MOUSE after
`SettleSlots` slots without a descriptor, however many of the device's interfaces
it has heard of. `VInv` therefore bounds the quiet. Session and set know of the
same descriptors, and what was judged without a layout was nothing
(`SetFollows`); as long as no message of the FPGA is lost, what is missing is
exported or on its way (`Coming`); and the slots that may bring something else
before it, a `MAP_STATUS` for each `MAP_COMMIT` still in flight when the device
went and the report the queue already had, are eight at most, those passed
included (`Patient`). Trying to prove it made two conditions explicit, each found
by TLC. The theorem assumes `SettleSlots > 8` (`mcu/inj_session.c` has 512): with
two slots, a verdict on an old upload between two descriptors is enough. And the
property asks for the device's session to last: after a failed poll, an MCU that
starts again hears only of what is left of an export. `VInv` was checked by TLC on
four small pairs of devices with nine slots before it was proved; the run
`injection` has three, enough for its devices.

**EnumerationProofs.** Five properties of the enumerator between control engine,
store and device, for every set of devices and every timing.
`CompleteInvariant` proves `Complete`, whose parts are: the session, the engine
and the FSM agree on the one request under way (`SessionSound`, `EngineSound`);
strobes are raised in the states that follow the state that raises them, and a
commit only of a capture that has come whole (`StrobeSound`); the capture under
way is the one the FSM started, with as many units as the FSM has counted
(`StoreSound`); and `OneDevice`: from the address on there is one device `m` such
that whoever has address 1 is `m`, the answer on its way is its answer, the
string indexes and the endpoint table are its own once they have been read, and
the store holds, or is about to (`WillKeep`), just what `m` has been asked for so
far (`Captured`), each descriptor whole. A device that replaces `m` has address
0 until the next reset: that is why a swap in the middle of an enumeration leaves
no mixture. `Captured` depends on the FSM's stage and on the cursors; one lemma
per stage says what a step adds to it (`StringsNext`, `ReportsNext`,
`CapturedStep`). `ReadyMeansComplete` is `OneDevice` in READY, where what has
been asked for is all that was wanted (`CapturedIsWanted`); `NoOverlap` needs the
other parts. `SpeedAgreed` has an invariant of its own, `Negotiated`: a device
that has been there since the reset began counts the pairs the host counts,
since it chirps once and has ended its chirp before the host drives its first
pair. `CloneSeesFrozenStore` needs no invariant:
every strobe that lets the store change also takes the clone off the bus in the
same cycle. `TypeCorrect` proves `TypeOK`: WAIT_ATTACH, BUS_RESET and RESET_RECOVERY
end by an equality test, and no counter passes the value it is tested for. That
of the reset is advanced by the chirp states as well, which do not test it;
`InTime` says how far it may have run in each state, from the number of pairs
driven, so that all pairs fit before the tail (the speed is latched with the
last) and the pair that runs into the tail ends before the reset does.
`UnitsAsked` bounds what is read by what was asked for. The proof needs an
attach time of more than one cycle, and `TimingAssumption` says so: with one,
the counter starts at 1 (`enumerator.py:501`) and never meets
`attach_stable_cycles - 1`. The code's is a tenth of a second (`timing.py:41`).

**InjectionEngineProofs.** `RecordsAsPromised`, for any layouts, commands, values
and generations and any number of reports, losses, maps and changes of protocol.
Nothing is assumed of when these come. The history variable `race` records the
two events that the code does not foresee (section 4), under the map in force,
and the properties name what each of them excuses. The invariant `IInv` says when the
transaction in hand may still commit: `Held`, it has a map, that map is in force,
and no loss of it was noticed. `EraOfMap` makes that equivalent to its
activation being the last, which the code, comparing generations, does not see:
it needs that a generation comes round only after a loss the engine has noticed
(`MapInForce`, and `LossSeen` in `Activate`), and `RecordsOfSpentMaps`, that a
record left from an earlier map does not pass for one of a new map. `CommandStays`
says that the command it read is the one the plane still offers, so that what is
committed is what is acknowledged; that holds while no protocol has changed under
it (`Foreseen`), and a new map starts from records that owe nothing whatever
befell the one before. `Planned` gives the arithmetic: what will be
left in the record and what went out in the report are together what is owed once
the command counts, from the moment the command is read to the last byte. The
last byte's two lemmas, `LastByteCommits` and `LastByteLost`, are where these
meet. `SeedWalk` says how far the walk has come; it gives `SeedsEveryLayout`: the
first layout is the only one it can miss, and an activation in mid-fill the only
way.

`spent` is a history variable for this: the MCU counts generations up
(`mcu/inj_session.c:30`), so between two losses none comes round before 65535
uploads. Without it a third map of two generations breaks `RecordsAsPromised`.

**DescriptorServeProofs.** The safety properties of the descriptor store, cycle
by cycle, for any devices (scripts of non-empty descriptors, repeated keys and
ones that do not fit among them), any slots, memory and packet sizes, and any
requests. `DescriptorServeInv` proves `IInv`, which goes from the writer to the
PC. `WriterPlaced`, `CapturePlaced`: the capture that is open is the one the
writer writes, with as many bytes, and they end at the allocator.
`ScanPlaced`: while the directory is scanned for its slot, the slots passed are
those below the cursor, so that the slot chosen is the key's old one, or a free
one if it has none. `DirectoryWhole`: every entry is one capture of the
session's, below `Limit`, where the open capture begins; this is why an abort may
give the space back. Committing moves `Limit` past `CaptureWhole`, and the slot
chosen keeps keys unique. `QuietUnlessUp`: nothing is asked of the store, and no answer is
held, before the device is up; `AnswersTrue` and `ServeTrue` say what the scans of the
exporter and of the clone have found or passed, and that needs a directory that
does not change under them, which `connected` gives.

`TransferPlaced` follows a transfer of the PC. `LookupOn`, `LookupDone`: the
streamer knows of the lookup just what the store does. A packet is being sent
(`Sending`), or its start waits for the answer (`Waiting`), or is replayed in the
cycle after (`Replaying`), or it is the empty one that ends a transfer (`Ending`),
or a refusal (`Refusing`). `Sending` has what makes the byte on the wire right:
the memory was read one cycle ahead, at `serve_offset`, so `read_q` is the byte
at `pos` also when the transmitter has just taken one. `EntriesAreWhole`,
`BytesAreRight` and `TransfersComplete` follow. A result that is kept after the
device is lost is covered in the one cycle before `clear` takes it (phase "drop").

`FragmentsAreWhole`, the first conjunct of `ExportedWhole`, has a second
invariant, `FInv`, beside that of the store, for fragments of any size.
`Handshake`: the store scans for the exporter only while it waits for the answer,
so the answer stays while a descriptor is sent. `AtWork`: that descriptor is the
one the store found, of the session in force. A reset of the store while the
exporter works comes with the loss of the session, and in that cycle the frame
that was begun is given up. `ByteAsked`: the plane gives the builder to the
exporter only in EMIT, and the byte that the builder waits for is the one the
exporter reads, two cycles later. `FrameBuilt`: the part of a frame that is there
is of the fragment the exporter is at, because it moves on only when a frame of
its own was queued. The other conjuncts of `ExportedWhole`, which relate all
fragments of an export, are model-checked only.

**Assumptions.** Named in the module that declares the constants, and evaluated
by TLC in the runs. Most say that a size or a time is a positive number or that a
bound is a number. Those that say more: the merge's queue and the engine's buffer
hold the longest report (`RelayAssumption`, `PathAssumption`), sequence numbers
and generations have enough values to be told apart at all (`WireAssumption`),
a chirp and its answer fit in a bus reset and an attach takes more than a cycle
(`TimingAssumption`),
there is a device and each has an interface (`PlaneAssumption`).

Not proved: liveness, and `ENABLED`, which are out of the prover's reach;
what a recursive definition computes, and with it the three invariants of
`ConfigurationParser` (the bytes go through `Fed`, the mirror is `MirrorWalk`).

## 6. What is left out, and why

* Bus timing, CRC arithmetic, signalling: states that wait do so for any number
  of cycles, and a packet or frame arrives or does not. Line noise shows only
  where the enumerator tolerates it (RESET_RECOVERY).
* The contents of reports and of a map's entries; the checks of a field's place
  and width in `gw/injection_map.py`; interval arithmetic. MASK and ABSOLUTE commands are one kind in `InjectionEngine`.
* In `InjectionEngine`: the report's bytes (`ReportBuffer` has them), the scan
  pipeline's latency, saturating counters; the 32-bit residual is `MaxResidual`.
* In `InjectionPlane` the boot-protocol mask is a nondeterministic drop;
  `InjectionEngine` has it.
* In `InjSession`: the drift, the pad's release timer, buttons a layout does not
  have. (The wrap of the map generation, `mcu/inj_session.c:30`, is in the model;
  the proof of the refinement excludes it, section 5.)
* The receive sequence window (`mcu/link_retire.c:145`): the FPGA sends each
  message once, so nothing reaches its branches but the first.
* In `SharedWindow`: the fault verdict, core 1's counters, 32-bit wraps.
* The response's packets of a forwarded class request (RESPOND's `pkt_base`).
* `DescriptorStoreCopyEngine`, which only tests instantiate, and of the store's
  ports `device_lookup_*` and `copy_*`, which nothing drives, and `lookup_*`, which
  only the ports of the stand-alone host module reach (`gw/gateware.py:1226`).
* In `DescriptorExport`: the eight header bytes of a fragment and its CRC are one
  step each, and `descriptor_changed`, which comes outside a session only.
* HID report parsing, the console's text, the panel, LED, UART, fault dump, debug
  registers, the generated contract, and the CH32H417 port of the link: text
  handling, drawing, register set-up; nothing of it feeds back into the link
  but one request at a time, which `InjSession` has.

## 7. Status and plan

| Component | Status |
|---|---|
| Report path; injection engine; enumerator and configuration parsing | modelled |
| Class-request forwarding; host bus; transaction and control engines; SOFs | partly: packets of a response, stages and byte counts, intervals left out |
| Descriptor store and streamer | partly: three undriven ports left out |
| Descriptor export | modelled |
| Plane, map store, monitor; session; link and recovery; descriptor set | partly: as section 6 says |
| Shared window | partly: two of its three locks |
| Clone's control endpoint; top level | partly, as the wiring of the above |
| Console, HID parsing, panel and other I/O, CH32H417 port, debug, generated contract | not modelled |

Next:

1. Model the release timer of the pad and the demo drift in `InjSession`, and the
   third lock of `SharedWindow`.
2. Give a forwarded class request's response its packets.
