------------------------ MODULE InjectionLinkProofs ------------------------
(***************************************************************************)
(* A map that is active in the FPGA is one upload of the running firmware, *)
(* the link implements InjectionService, a session that injects holds the  *)
(* map that is active, and the verdict NO_MOUSE is right, for any devices, *)
(* any number of requests and faults, and any moduli.                      *)
(***************************************************************************)
EXTENDS InjectionLink, TLAPS, SequenceTheorems, WellFoundedInduction

Classes == {"NONE", "MOUSE", "PAD"}
Generations == DOMAIN Devices

\* The frames and messages that go over the link.
FrameTypes == {"MAP_BEGIN", "MAP_ENTRY", "MAP_COMMIT"} \cup Commands
Frames == [type : FrameTypes, seq : 1..(SeqModulus - 1), desc : Generations,
           map : 1..(MapModulus - 1), arg : Nat, boot : Nat]
Messages ==
  {m \in [type : {"DESCRIPTOR", "REPORT", "ACCEPTED", "REJECTED"}, desc : Generations, arg : Nat] :
     m.type = "DESCRIPTOR" => m.arg \in Interfaces(m.desc)}

\* The session, and when it holds a map of a device.
Sending == {"SEND_BEGIN", "SEND_ENTRY", "SEND_COMMIT"}
Uploading == Sending \cup {"WAIT_COMMIT", "INJECTING"}
Layouts == [class : Classes \cup {"UNKNOWN"}, interface : Nat]
PendingRequests == [kind : Commands \cup {"NONE"}, id : Nat]
Sessions ==
  [phase : Phases, seq : 0..(SeqModulus - 1), desc : Generations \cup {0}, layout : Layouts,
   complete : SUBSET Nat, judged : SUBSET Nat, settle : Nat, no_mouse : BOOLEAN,
   map : 0..(MapModulus - 1), cursor : Nat, wait : Nat, active : 0..(MapModulus - 1),
   req : PendingRequests, boot : Nat]

\* An upload is of a device and has a generation; commands cite it.
SessionSound(s) ==
  /\ s \in Sessions
  /\ s.phase \in Uploading => s.desc # 0 /\ s.map # 0
  /\ s.phase = "INJECTING" => s.active = s.map
  /\ s.req # NoRequest => s.req.kind \in Commands

SetSound(d) ==
  /\ d \in [desc : Generations \cup {0}, slots : Seq(Nat), dirty : SUBSET Nat]
  /\ d.dirty \subseteq DOMAIN d.slots
  /\ \A i \in DOMAIN d.slots : d.desc \in Generations /\ d.slots[i] \in Interfaces(d.desc)

Snapshots ==
  {p \in [type : {"SNAPSHOT"}, desc : Generations, slot : Nat, interface : Nat] :
     p.interface \in Interfaces(p.desc)}

McuTyped ==
  /\ link \in {"up", "low", "off"} /\ late \in BOOLEAN
  /\ ring \in (Frames \cup {Idle}) \X (Frames \cup {Idle})
  /\ held \in Messages \cup {None}
  /\ SessionSound(ses) /\ SetSound(set)
  /\ snap \in Snapshots \cup {None}
  /\ requests \in Nat

Banks == [valid : BOOLEAN, desc : Nat, map : Nat, entries : Seq(Frames)]
Stores ==
  [state : {"IDLE", "RECEIVE", "VALIDATE"}, begin : [desc : Nat, map : Nat, count : Nat],
   entries : Seq(Frames), matches : BOOLEAN, latched : BOOLEAN, bank : Banks]

PlaneTyped ==
  /\ link_ready \in BOOLEAN /\ session \in BOOLEAN /\ failed \in BOOLEAN
  /\ generation \in Generations
  /\ rx \in Frames \cup {None}
  /\ staged \in [type : {"STAGED"}, frame : Frames, allowed : BOOLEAN] \cup {None}
  /\ last_rx \in 1..SeqModulus
  /\ store \in Stores
  /\ status \in Messages \cup {None} /\ monitor \in Messages \cup {None}
  /\ tx \in Messages \cup {None}
  /\ export \in [desc : Generations, next : Nat] /\ export_pending \in BOOLEAN
  /\ export.next \in 0..Len(Devices[export.desc])

-----------------------------------------------------------------------------
\* While link or session is down the plane holds nothing, and what it was
\* receiving is revoked.
Forgotten ==
  /\ link_ready = (link = "up")
  /\ link = "off" => ring = IdleRing
  /\ invalidate =>
       /\ rx = None /\ staged = None /\ last_rx = NoSequence
       /\ store.state # "RECEIVE" /\ ~store.bank.valid
       /\ store.state = "VALIDATE" => store.latched
  /\ store.latched => store.state # "RECEIVE" /\ ~store.bank.valid

\* A frame is of this run of the firmware, and MAP_BEGIN states the size of
\* its map.
FrameSound(f) ==
  f \in Frames =>
    f.boot = ses.boot /\ (f.type = "MAP_BEGIN" => f.arg = EntryCount)

FramesSound ==
  /\ FrameSound(rx) /\ FrameSound(ring[1]) /\ FrameSound(ring[2])
  /\ staged # None => FrameSound(staged.frame)

\* What is being received has the announced size once it matches, and is of
\* this run unless it is revoked.
ReceivingSound ==
  store.state # "IDLE" =>
    /\ store.begin.count = EntryCount
    /\ store.matches /\ store.state = "VALIDATE" => Len(store.entries) = EntryCount
    /\ ~store.latched => \A i \in 1..Len(store.entries) : store.entries[i].boot = ses.boot

\* The bank holds the entries of one map; those of a valid one are of this run.
BankSound ==
  /\ \A i \in 1..Len(store.bank.entries) :
       /\ store.bank.entries[i].arg = i - 1
       /\ store.bank.entries[i].map = store.bank.map
       /\ store.bank.entries[i].desc = store.bank.desc
  /\ store.bank.valid =>
       /\ store.bank.desc = generation
       /\ Len(store.bank.entries) = EntryCount
       /\ \A i \in 1..EntryCount : store.bank.entries[i].boot = ses.boot

IInv ==
  /\ McuTyped /\ PlaneTyped
  /\ Forgotten /\ FramesSound /\ ReceivingSound /\ BankSound
-----------------------------------------------------------------------------
\* None and Idle are no frames, and None is no message.
LEMMA NoFrames == None \notin Frames /\ Idle \notin Frames /\ None \notin Messages
  BY DEF None, Idle, Frame, Frames, FrameTypes, Commands, Messages

\* What is written into the session's registers is of their types.
LEMMA SessionValues ==
  /\ 0 \in 0..(SeqModulus - 1) /\ 0 \in 0..(MapModulus - 1) /\ 0 \in Nat
  /\ NoRequest \in PendingRequests /\ NoRequest.kind \notin Commands /\ NoLayout \in Layouts
  /\ Phases = {"WAIT_LINK", "WAIT_DESCRIPTOR", "NO_MOUSE", "WAIT_REPORT"} \cup Uploading
  BY WireAssumption DEF NoRequest, PendingRequests, Commands, NoLayout, Layouts, Phases, Uploading, Sending

\* A session in none of the uploading phases.
Resting == {"WAIT_LINK", "WAIT_DESCRIPTOR", "NO_MOUSE", "WAIT_REPORT"}

\* A session at rest has no upload to be sound about.
LEMMA RestingSound ==
  ASSUME NEW s \in Sessions, s.phase \in Resting, s.req # NoRequest => s.req.kind \in Commands
  PROVE  SessionSound(s)
  BY DEF SessionSound, Resting, Uploading, Sending

\* set_link.
LEMMA SetLinkSound ==
  ASSUME NEW s, SessionSound(s), NEW up \in BOOLEAN
  PROVE  SessionSound(SetLink(s, up)) /\ SetLink(s, up).boot = s.boot
  <1>1. s \in Sessions /\ (s.req # NoRequest => s.req.kind \in Commands)
    BY DEF SessionSound
  <1>2. CASE ~up
    <2> DEFINE t == [s EXCEPT !.phase = "WAIT_LINK", !.seq = 0, !.cursor = 0, !.settle = 0, !.wait = 0,
                 !.active = 0, !.req = NoRequest]
    <2>1. t \in Sessions /\ t.phase \in Resting /\ t.req = NoRequest /\ t.boot = s.boot
      BY <1>1, SessionValues, Zenon DEF Sessions, Resting
    <2> QED
      BY <1>2, <2>1, RestingSound DEF SetLink
  <1>3. CASE up /\ s.phase = "WAIT_LINK"
    <2> DEFINE t == [s EXCEPT !.phase = resting_phase(s)]
    <2>1. resting_phase(s) \in Resting
      BY DEF resting_phase, Resting
    <2>2. t \in Sessions /\ t.phase \in Resting /\ t.req = s.req /\ t.boot = s.boot
      BY <1>1, <2>1, SessionValues, Zenon DEF Sessions, Resting
    <2> QED
      BY <1>1, <1>3, <2>2, RestingSound DEF SetLink
  <1> QED
    BY <1>2, <1>3 DEF SetLink

\* adopt_generation.
LEMMA AdoptSound ==
  ASSUME NEW s, SessionSound(s), NEW g \in Generations
  PROVE  /\ SessionSound(adopt_generation(s, g)) /\ adopt_generation(s, g).boot = s.boot
         /\ adopt_generation(s, g).desc = g
  <1>1. s \in Sessions
    BY DEF SessionSound
  <1> DEFINE t == forget_device(s, g)
  <1>2. t \in Sessions /\ t.phase \in Resting /\ t.req = NoRequest /\ t.boot = s.boot /\ t.desc = g
    <2>1. (IF s.phase = "WAIT_LINK" THEN s.phase ELSE "WAIT_DESCRIPTOR") \in Resting
      BY DEF Resting
    <2> QED
      BY <1>1, <2>1, SessionValues, ZenonT(40) DEF Sessions, Resting, forget_device
  <1>3. SessionSound(t)
    BY <1>2, RestingSound
  <1> QED
    BY <1>1, <1>2, <1>3 DEF adopt_generation, Sessions

\* The two counters that wrap.
LEMMA NextNumbers ==
  ASSUME NEW s \in Sessions
  PROVE  NextFrameSeq(s) \in 1..(SeqModulus - 1) /\ NextMapGeneration(s) \in 1..(MapModulus - 1)
  <1>1. s.seq \in 0..(SeqModulus - 1) /\ s.map \in 0..(MapModulus - 1)
    BY DEF Sessions
  <1>2. ASSUME NEW M \in Nat, M > 1, NEW n \in 0..(M - 1)
        PROVE  (IF n + 1 = M THEN 1 ELSE n + 1) \in 1..(M - 1)
    BY <1>2
  <1>3. SeqModulus \in Nat /\ SeqModulus > 1 /\ MapModulus \in Nat /\ MapModulus > 1
    BY WireAssumption
  <1>4. NextFrameSeq(s) \in 1..(SeqModulus - 1)
    BY <1>1, <1>2, <1>3 DEF NextFrameSeq
  <1>5. NextMapGeneration(s) \in 1..(MapModulus - 1)
    BY <1>1, <1>2, <1>3 DEF NextMapGeneration
  <1> QED
    BY <1>4, <1>5

\* The set for a device's descriptors.
LEMMA RetargetedSound ==
  ASSUME NEW d, SetSound(d), NEW g \in Generations
  PROVE  LET old == Retargeted(d, g)
         IN  /\ SetSound(old) /\ old.desc = g
             /\ old = d \/ (d.desc # g /\ old.slots = <<>>)
  <1> DEFINE empty == [EmptySet EXCEPT !.desc = g]
  <1>1. empty.desc = g /\ empty.slots = <<>> /\ empty.dirty = {}
    BY DEF EmptySet
  <1>2. <<>> \in Seq(Nat) /\ {} \in SUBSET Nat /\ 0 \in Generations \cup {0}
    OBVIOUS
  <1>3. DOMAIN <<>> = {}
    OBVIOUS
  <1>4. EmptySet \in [desc : Generations \cup {0}, slots : Seq(Nat), dirty : SUBSET Nat]
    BY <1>2, Zenon DEF EmptySet
  <1>5. empty \in [desc : Generations \cup {0}, slots : Seq(Nat), dirty : SUBSET Nat]
    BY <1>4, Zenon
  <1>6. SetSound(empty)
    BY <1>1, <1>3, <1>5 DEF SetSound
  <1> QED
    BY <1>1, <1>6 DEF Retargeted, SetSound

\* The slot of a descriptor.
LEMMA PushSound ==
  ASSUME NEW d, SetSound(d), NEW g \in Generations, NEW i \in Interfaces(g)
  PROVE  SetSound(Push(d, g, i)) /\ PushedSlot(d, g, i) \in Nat
  <1> DEFINE old == Retargeted(d, g)
  <1>1. SetSound(old) /\ old.desc = g
    BY RetargetedSound
  <1>2. CASE Holds(old, i)
    <2>1. slot_for(old, i) \in DOMAIN old.slots
      BY <1>2 DEF Holds, slot_for, complete_mask
    <2>2. DOMAIN old.slots \subseteq Nat
      BY <1>1 DEF SetSound
    <2> QED
      BY <1>1, <1>2, <2>1, <2>2 DEF Push, PushedSlot
  <1>3. CASE ~Holds(old, i)
    <2>1. slot_for(old, i) = Len(old.slots) + 1
      BY <1>3 DEF slot_for
    <2>2. i \in Nat /\ old.slots \in Seq(Nat)
      BY <1>1, PlaneAssumption DEF SetSound, Interfaces, Generations
    <2> DEFINE slots == Append(old.slots, i)
    <2>3. /\ slots \in Seq(Nat) /\ DOMAIN slots = 1..(Len(old.slots) + 1)
          /\ \A j \in DOMAIN slots : slots[j] = IF j = Len(old.slots) + 1 THEN i ELSE old.slots[j]
          /\ DOMAIN old.slots = 1..Len(old.slots) /\ Len(old.slots) \in Nat
      BY <2>2
    <2> DEFINE new == [old EXCEPT !.slots = slots, !.dirty = @ \union {Len(old.slots) + 1}]
    <2>4. Push(d, g, i) = new
      BY <1>3, <2>1 DEF Push
    <2>5. new.desc = g /\ new.slots = slots /\ new.dirty = old.dirty \union {Len(old.slots) + 1}
          /\ new \in [desc : Generations \cup {0}, slots : Seq(Nat), dirty : SUBSET Nat]
      <3>1. old \in [desc : Generations \cup {0}, slots : Seq(Nat), dirty : SUBSET Nat]
        BY <1>1 DEF SetSound
      <3>2. old.dirty \union {Len(old.slots) + 1} \in SUBSET Nat
        BY <2>3, <3>1
      <3> HIDE DEF slots
      <3> QED
        BY <1>1, <2>3, <3>1, <3>2, Zenon
    <2>6. new.dirty \subseteq DOMAIN slots
      BY <1>1, <2>3, <2>5 DEF SetSound
    <2>7. \A j \in DOMAIN slots : slots[j] \in Interfaces(g)
      BY <1>1, <2>3 DEF SetSound
    <2> QED
      BY <2>1, <2>3, <2>4, <2>5, <2>6, <2>7 DEF SetSound, PushedSlot
  <1> QED
    BY <1>2, <1>3

\* begin_upload.
LEMMA BeginSound ==
  ASSUME NEW s, SessionSound(s), s.phase = "WAIT_REPORT", s.desc \in Generations
  PROVE  SessionSound(begin_upload(s)) /\ begin_upload(s).boot = s.boot
  <1>1. s \in Sessions /\ (s.req # NoRequest => s.req.kind \in Commands)
    BY DEF SessionSound
  <1> DEFINE t == begin_upload(s)
  <1>2. /\ t \in Sessions /\ t.boot = s.boot /\ t.desc = s.desc /\ t.phase = "SEND_BEGIN" /\ t.req = s.req
        /\ t.map = NextMapGeneration(s)
    <2>1. NextMapGeneration(s) \in 0..(MapModulus - 1)
      BY <1>1, NextNumbers
    <2>2. "SEND_BEGIN" \in Phases
      BY DEF Phases
    <2> QED
      BY <1>1, <2>1, <2>2, SessionValues, Zenon DEF Sessions, begin_upload
  <1>3. t.desc # 0 /\ t.map # 0
    BY <1>1, <1>2, NextNumbers, PlaneAssumption DEF Generations
  <1> QED
    BY <1>1, <1>2, <1>3 DEF SessionSound

\* link_inject_consume.
LEMMA ConsumeSound ==
  ASSUME NEW s, SessionSound(s), NEW d, SetSound(d), NEW msg \in Messages \cup {None}
  PROVE  SessionSound(Consume(s, d, msg)) /\ Consume(s, d, msg).boot = s.boot
  <1>1. s \in Sessions /\ (s.req # NoRequest => s.req.kind \in Commands)
    BY DEF SessionSound
  <1>2. CASE msg.type = "DESCRIPTOR"
    <2>1. msg \in Messages /\ msg.desc \in Generations /\ msg.arg \in Interfaces(msg.desc)
      BY <1>2 DEF None, Messages
    <2> DEFINE slot == PushedSlot(d, msg.desc, msg.arg)
               edge == newly_complete(d, msg.desc, msg.arg)
               known == adopt_generation(s, msg.desc)
               t == [known EXCEPT !.settle = 0, !.complete = @ \union (IF edge THEN {slot} ELSE {})]
    <2>2. slot \in Nat
      BY <2>1, PushSound
    <2>3. known \in Sessions /\ SessionSound(known) /\ known.boot = s.boot
      BY <2>1, AdoptSound DEF SessionSound
    <2>4. /\ t \in Sessions /\ t.boot = s.boot /\ t.phase = known.phase /\ t.desc = known.desc
          /\ t.map = known.map /\ t.active = known.active /\ t.req = known.req
      <3>1. known.complete \union (IF edge THEN {slot} ELSE {}) \in SUBSET Nat
        BY <2>2, <2>3 DEF Sessions
      <3> QED
        BY <2>3, <3>1, SessionValues, Zenon DEF Sessions
    <2>5. SessionSound(t)
      BY <2>3, <2>4 DEF SessionSound
    <2>6. Consume(s, d, msg) \in {s, t}
      BY <1>2 DEF Consume, ObserveDescriptor
    <2> QED
      BY <2>4, <2>5, <2>6
  <1>3. CASE msg.type = "REPORT"
    <2>1. msg.desc \in Generations
      BY <1>3 DEF None, Messages
    <2> QED
      BY <1>3, <2>1, BeginSound DEF Consume, ObserveReport
  <1>4. CASE msg.type \in {"ACCEPTED", "REJECTED"}
    <2> DEFINE t == [s EXCEPT !.phase = "WAIT_REPORT"]
               u == [s EXCEPT !.active = msg.arg, !.phase = "INJECTING"]
    <2>1. t \in Sessions /\ t.boot = s.boot /\ t.phase = "WAIT_REPORT" /\ t.req = s.req
      BY <1>1, SessionValues, Zenon DEF Sessions
    <2>2. SessionSound(t)
      BY <1>1, <2>1, RestingSound DEF Resting
    <2>3. ASSUME s.phase = "WAIT_COMMIT", msg.arg = s.map
          PROVE  SessionSound(u) /\ u.boot = s.boot
      <3>1. msg.arg \in 0..(MapModulus - 1) /\ "INJECTING" \in Phases
        BY <1>1, <2>3 DEF Sessions, Phases
      <3>2. /\ u \in Sessions /\ u.boot = s.boot /\ u.phase = "INJECTING" /\ u.req = s.req /\ u.active = s.map
            /\ u.map = s.map /\ u.desc = s.desc
        BY <1>1, <2>3, <3>1, Zenon DEF Sessions
      <3> QED
        BY <2>3, <3>2 DEF SessionSound, Uploading
    <2> QED
      BY <1>4, <2>1, <2>2, <2>3 DEF Consume, ObserveMapStatus
  <1> QED
    BY <1>2, <1>3, <1>4 DEF Consume

\* A frame that goes out while a map is in the session.
LEMMA EmitSound ==
  ASSUME NEW s \in Sessions, s.desc # 0, s.map # 0, NEW type \in FrameTypes, NEW arg \in Nat
  PROVE  /\ Emit(s, type, arg).session \in Sessions
         /\ Emit(s, type, arg).session = [s EXCEPT !.seq = NextFrameSeq(s)]
         /\ Emit(s, type, arg).frame \in Frames
         /\ Emit(s, type, arg).frame = Frame(type, NextFrameSeq(s), s.desc, s.map, arg, s.boot)
  <1>1. NextFrameSeq(s) \in 1..(SeqModulus - 1) /\ NextFrameSeq(s) \in 0..(SeqModulus - 1)
    BY NextNumbers
  <1>2. s.desc \in Generations /\ s.map \in 1..(MapModulus - 1) /\ s.boot \in Nat
    <2>1. s.map \in 0..(MapModulus - 1) /\ s.desc \in Generations \cup {0} /\ s.boot \in Nat
      BY DEF Sessions
    <2> QED
      BY <2>1
  <1>3. [s EXCEPT !.seq = NextFrameSeq(s)] \in Sessions
    BY <1>1, Zenon DEF Sessions
  <1>4. Frame(type, NextFrameSeq(s), s.desc, s.map, arg, s.boot) \in Frames
    BY <1>1, <1>2, Zenon DEF Frame, Frames
  <1> QED
    BY <1>3, <1>4 DEF Emit

\* What the session does as it fills a frame, and what the frame is.
Filled(s, out) ==
  /\ SessionSound(out.session) /\ out.session.boot = s.boot
  /\ out.session.desc = s.desc /\ out.session.map = s.map /\ out.session.active = s.active
  /\ out.session.req \in {s.req, NoRequest} /\ out.session.phase # "SEND_BEGIN"
  /\ out.session.phase \in Uploading => s.phase \in Uploading
  /\ out.session.phase \in Sending => s.phase \in Sending
  /\ out.session.phase = "INJECTING" => s.phase = "INJECTING"
  /\ out.frame = Idle => out.session.seq = s.seq
  /\ out.frame # Idle =>
       /\ out.frame \in Frames /\ out.frame.boot = s.boot
       /\ out.frame.seq = NextFrameSeq(s) /\ out.session.seq = NextFrameSeq(s)
       /\ out.frame.map = s.map /\ out.frame.desc = s.desc /\ s.phase \in Uploading
       /\ out.frame.type = "MAP_BEGIN" => out.frame.arg = EntryCount /\ s.phase = "SEND_BEGIN"
       /\ out.frame.type = "MAP_COMMIT" => out.session.phase = "WAIT_COMMIT"
       /\ out.frame.type \in Commands =>
            s.req # NoRequest /\ out.frame.arg = s.req.id /\ out.session.req = NoRequest

\* A frame of a map's upload.
LEMMA SendSound ==
  ASSUME NEW s, SessionSound(s), s.phase \in Sending,
         NEW t \in Sessions, t.phase \in {"SEND_ENTRY", "SEND_COMMIT", "WAIT_COMMIT"},
         t.desc = s.desc, t.map = s.map, t.boot = s.boot, t.req = s.req, t.seq = s.seq,
         t.active = s.active,
         NEW type \in {"MAP_BEGIN", "MAP_ENTRY", "MAP_COMMIT"}, NEW arg \in Nat,
         type = "MAP_BEGIN" => arg = EntryCount /\ s.phase = "SEND_BEGIN",
         type = "MAP_COMMIT" => t.phase = "WAIT_COMMIT"
  PROVE  Filled(s, Emit(t, type, arg))
  <1>1. t.desc # 0 /\ t.map # 0 /\ (t.req # NoRequest => t.req.kind \in Commands)
    BY DEF SessionSound, Uploading
  <1>2. type \in FrameTypes /\ type \notin Commands /\ NextFrameSeq(t) = NextFrameSeq(s)
    BY DEF FrameTypes, Commands, NextFrameSeq
  <1> DEFINE u == [t EXCEPT !.seq = NextFrameSeq(t)]
             f == Frame(type, NextFrameSeq(t), t.desc, t.map, arg, t.boot)
  <1>3. u \in Sessions /\ Emit(t, type, arg).session = u
        /\ f \in Frames /\ Emit(t, type, arg).frame = f
    BY <1>1, <1>2, EmitSound
  <1>4. /\ u.phase = t.phase /\ u.desc = t.desc /\ u.map = t.map /\ u.req = t.req /\ u.boot = t.boot
        /\ u.active = t.active /\ u.seq = NextFrameSeq(s)
    BY <1>2 DEF Sessions
  <1>5. /\ f.boot = s.boot /\ f.type = type /\ f.arg = arg /\ f.seq = NextFrameSeq(s)
        /\ f.map = s.map /\ f.desc = s.desc
    BY <1>2 DEF Frame
  <1>6. SessionSound(u)
    BY <1>1, <1>3, <1>4 DEF SessionSound
  <1>7. s.phase \in Uploading /\ u.phase # "INJECTING" /\ u.phase # "SEND_BEGIN"
    BY <1>4 DEF Uploading
  <1> HIDE DEF u, f
  <1> QED
    BY <1>2, <1>3, <1>4, <1>5, <1>6, <1>7, NoFrames DEF Filled

\* inj_session_fill_tx.
LEMMA FillTxSound ==
  ASSUME NEW s, SessionSound(s)
  PROVE  Filled(s, FillTx(s))
  <1>1. s \in Sessions /\ (s.req # NoRequest => s.req.kind \in Commands)
    BY DEF SessionSound
  <1>2. s.cursor \in Nat /\ s.wait \in Nat /\ s.settle \in Nat /\ EntryCount \in Nat
        /\ {"SEND_ENTRY", "SEND_COMMIT", "WAIT_COMMIT", "NO_MOUSE", "WAIT_REPORT"} \subseteq Phases
    BY <1>1, SessionAssumption DEF Sessions, Phases
  <1>3. ASSUME NEW t, SessionSound(t), t.boot = s.boot, t.desc = s.desc, t.map = s.map,
               t.active = s.active, t.req = s.req, t.seq = s.seq, t.phase # "SEND_BEGIN",
               t.phase = s.phase \/ t.phase \in Resting
        PROVE  Filled(s, Quiet(t))
    <2>1. t.phase \notin Resting => t.phase = s.phase
      BY <1>3
    <2>2. t.phase \in Uploading => t.phase = s.phase
      BY <2>1 DEF Resting, Uploading, Sending
    <2> QED
      BY <1>3, <2>2 DEF Filled, Quiet, Uploading, Sending
  <1>4. CASE s.phase = "WAIT_DESCRIPTOR"
    <2> DEFINE settle == IF s.settle < SettleSlots THEN s.settle + 1 ELSE s.settle
               quiet == /\ settle = SettleSlots
                        /\ s.complete # {}
                        /\ s.complete \subseteq s.judged
    <2>1. settle \in Nat /\ (s.no_mouse \/ quiet) \in BOOLEAN
      BY <1>2
    <2>2. (IF quiet THEN "NO_MOUSE" ELSE s.phase) \in Phases
      BY <1>1, <1>2 DEF Sessions
    <2>3. (IF quiet THEN "NO_MOUSE" ELSE s.phase) \in Resting
      BY <1>4 DEF Resting
    <2>4. settle_step(s) = [s EXCEPT !.settle = settle, !.no_mouse = @ \/ quiet,
                                     !.phase = IF quiet THEN "NO_MOUSE" ELSE @]
      BY DEF settle_step
    <2> HIDE DEF settle, quiet
    <2>5. settle_step(s) \in Sessions
      BY <1>1, <2>1, <2>2, <2>4, Zenon DEF Sessions
    <2>6. settle_step(s).phase \in Resting /\ settle_step(s).req = s.req
          /\ settle_step(s).boot = s.boot /\ settle_step(s).desc = s.desc
          /\ settle_step(s).map = s.map /\ settle_step(s).active = s.active
          /\ settle_step(s).seq = s.seq
      BY <1>1, <2>3, <2>4, Zenon DEF Sessions
    <2>7. SessionSound(settle_step(s))
      BY <1>1, <2>5, <2>6, RestingSound
    <2> QED
      BY <1>3, <1>4, <2>6, <2>7 DEF FillTx, Resting
  <1>5. CASE s.phase = "SEND_BEGIN"
    <2> DEFINE t == [s EXCEPT !.cursor = 0, !.phase = "SEND_ENTRY"]
    <2>1. t \in Sessions /\ t.phase = "SEND_ENTRY" /\ t.desc = s.desc /\ t.map = s.map
          /\ t.boot = s.boot /\ t.req = s.req /\ t.seq = s.seq /\ t.active = s.active
      BY <1>1, <1>2, SessionValues, Zenon DEF Sessions
    <2>2. FillTx(s) = Emit(t, "MAP_BEGIN", EntryCount)
      BY <1>5 DEF FillTx
    <2> HIDE DEF t
    <2> QED
      BY <1>2, <1>5, <2>1, <2>2, SendSound DEF Sending
  <1>6. CASE s.phase = "SEND_ENTRY"
    <2> DEFINE t == sent_entry(s)
    <2>1. s.cursor + 1 \in Nat /\ (IF s.cursor + 1 >= EntryCount THEN "SEND_COMMIT" ELSE s.phase) \in Phases
      BY <1>1, <1>2 DEF Sessions
    <2>2. t \in Sessions /\ t.desc = s.desc /\ t.map = s.map /\ t.boot = s.boot /\ t.req = s.req
          /\ t.seq = s.seq /\ t.active = s.active
          /\ t.phase = IF s.cursor + 1 >= EntryCount THEN "SEND_COMMIT" ELSE s.phase
      BY <1>1, <2>1, Zenon DEF Sessions, sent_entry
    <2>3. FillTx(s) = Emit(t, "MAP_ENTRY", s.cursor)
      BY <1>6 DEF FillTx
    <2>4. t.phase \in {"SEND_ENTRY", "SEND_COMMIT", "WAIT_COMMIT"}
      BY <1>6, <2>2
    <2> HIDE DEF t
    <2> QED
      BY <1>2, <1>6, <2>2, <2>3, <2>4, SendSound DEF Sending
  <1>7. CASE s.phase = "SEND_COMMIT"
    <2> DEFINE t == [s EXCEPT !.wait = 0, !.phase = "WAIT_COMMIT"]
    <2>1. t \in Sessions /\ t.phase = "WAIT_COMMIT" /\ t.desc = s.desc /\ t.map = s.map
          /\ t.boot = s.boot /\ t.req = s.req /\ t.seq = s.seq /\ t.active = s.active
      BY <1>1, <1>2, SessionValues, Zenon DEF Sessions
    <2>2. FillTx(s) = Emit(t, "MAP_COMMIT", EntryCount)
      BY <1>7 DEF FillTx
    <2> HIDE DEF t
    <2> QED
      BY <1>2, <1>7, <2>1, <2>2, SendSound DEF Sending
  <1>8. CASE s.phase = "WAIT_COMMIT"
    <2> DEFINE t == commit_wait(s)
    <2>1. s.wait + 1 \in Nat
          /\ (IF s.wait + 1 >= CommitTimeout THEN "WAIT_REPORT" ELSE s.phase) \in Phases
      BY <1>1, <1>2 DEF Sessions
    <2>2. t \in Sessions /\ t.desc = s.desc /\ t.map = s.map /\ t.boot = s.boot /\ t.req = s.req
          /\ t.seq = s.seq /\ t.active = s.active
          /\ t.phase = IF s.wait + 1 >= CommitTimeout THEN "WAIT_REPORT" ELSE s.phase
      BY <1>1, <2>1, Zenon DEF Sessions, commit_wait
    <2>3. t.phase \in {"WAIT_REPORT", "WAIT_COMMIT"}
      BY <1>8, <2>2
    <2>4. SessionSound(t)
      BY <1>1, <1>8, <2>2, <2>3 DEF SessionSound, Uploading, Sending
    <2>5. FillTx(s) = Quiet(t)
      BY <1>8 DEF FillTx
    <2> HIDE DEF t
    <2> QED
      BY <1>3, <1>8, <2>2, <2>3, <2>4, <2>5 DEF Resting
  <1>9. CASE s.phase = "INJECTING" /\ s.req # NoRequest
    <2> DEFINE t == [s EXCEPT !.req = NoRequest]
               f == Frame(s.req.kind, NextFrameSeq(t), t.desc, t.map, s.req.id, t.boot)
    <2>1. t \in Sessions /\ t.phase = s.phase /\ t.desc = s.desc /\ t.map = s.map
          /\ t.boot = s.boot /\ t.req = NoRequest /\ t.active = s.active /\ t.seq = s.seq
      BY <1>1, SessionValues, Zenon DEF Sessions
    <2>2. s.desc # 0 /\ s.map # 0 /\ s.active = s.map
      BY <1>9 DEF SessionSound, Uploading
    <2>3. s.req.id \in Nat /\ s.req.kind \in FrameTypes /\ s.req.kind \in Commands
      BY <1>1, <1>9 DEF Sessions, PendingRequests, FrameTypes
    <2> HIDE DEF t
    <2>4. /\ Emit(t, s.req.kind, s.req.id).session \in Sessions
          /\ Emit(t, s.req.kind, s.req.id).session = [t EXCEPT !.seq = NextFrameSeq(t)]
          /\ f \in Frames /\ Emit(t, s.req.kind, s.req.id).frame = f
      BY <2>1, <2>2, <2>3, EmitSound
    <2>5. /\ f.map = s.active /\ f.boot = s.boot /\ f.type = s.req.kind /\ f.arg = s.req.id
          /\ f.desc = s.desc /\ f.seq = NextFrameSeq(s)
      BY <2>1, <2>2 DEF Frame, NextFrameSeq
    <2>6. [f EXCEPT !.map = s.active] = f
      BY <2>4, <2>5 DEF Frames
    <2>7. FillTx(s) = EmitCommand(s)
      BY <1>9 DEF FillTx
    <2>8. EmitCommand(s).session = [t EXCEPT !.seq = NextFrameSeq(t)] /\ EmitCommand(s).frame = f
      <3> DEFINE out == Emit(t, s.req.kind, s.req.id)
      <3>1. EmitCommand(s) = [out EXCEPT !.frame.map = s.active]
        BY DEF EmitCommand, t
      <3>2. out = [session |-> [t EXCEPT !.seq = NextFrameSeq(t)], frame |-> f]
        BY DEF Emit
      <3> QED
        BY <2>6, <3>1, <3>2
    <2>9. [t EXCEPT !.seq = NextFrameSeq(t)] \in Sessions
      BY <2>4
    <2>10. Filled(s, EmitCommand(s))
      <3> DEFINE u == [t EXCEPT !.seq = NextFrameSeq(t)]
      <3>1. u.phase = t.phase /\ u.desc = t.desc /\ u.map = t.map /\ u.req = NoRequest
            /\ u.boot = t.boot /\ u.active = t.active /\ u.seq = NextFrameSeq(s)
        BY <2>1 DEF Sessions, NextFrameSeq
      <3>2. u \in Sessions
        BY <2>9
      <3> HIDE DEF u
      <3>3. SessionSound(u)
        BY <1>9, <2>1, <2>2, <3>1, <3>2 DEF SessionSound
      <3>4. EmitCommand(s).session = u
        BY <2>8 DEF u
      <3>5. f.type # "MAP_BEGIN" /\ f.type # "MAP_COMMIT"
        BY <2>3, <2>5 DEF Commands
      <3>6. s.phase \in Uploading /\ u.phase # "SEND_BEGIN" /\ u.phase \notin Sending
        BY <1>9, <2>1, <3>1 DEF Uploading, Sending
      <3> QED
        BY <1>9, <2>1, <2>2, <2>4, <2>5, <2>8, <3>1, <3>3, <3>4, <3>5, <3>6, NoFrames DEF Filled
    <2> QED
      BY <2>7, <2>10
  <1>10. CASE /\ s.phase \notin {"WAIT_DESCRIPTOR", "SEND_BEGIN", "SEND_ENTRY", "SEND_COMMIT", "WAIT_COMMIT"}
              /\ ~(s.phase = "INJECTING" /\ s.req # NoRequest)
    <2>1. FillTx(s) = Quiet(s)
      BY <1>10 DEF FillTx
    <2> QED
      BY <1>3, <1>10, <2>1
  <1> QED
    BY <1>4, <1>5, <1>6, <1>7, <1>8, <1>9, <1>10

-----------------------------------------------------------------------------
\* The least of a set of numbers.
LEMMA LowestIn ==
  ASSUME NEW S \in SUBSET Nat, S # {}
  PROVE  Lowest(S) \in S
  <1> DEFINE R == {ss \in Nat \X Nat : ss[1] < ss[2]}
  <1>1. R = OpToRel(<, Nat)
    BY Zenon DEF OpToRel
  <1>2. IsWellFoundedOn(R, Nat)
    BY <1>1, NatLessThanWellFounded, Zenon
  <1> HIDE DEF R
  <1>4. \A m, n \in Nat : m < n => <<m, n>> \in R
    BY DEF R
  <1>3. PICK n \in S : \A m \in S : ~(<<m, n>> \in R)
    BY <1>2, WFMin, Zenon
  <1>5. \A m \in S : n <= m
    <2> SUFFICES ASSUME NEW m \in S PROVE n <= m
      OBVIOUS
    <2>1. m \in Nat /\ n \in Nat
      OBVIOUS
    <2>2. ~(<<m, n>> \in R)
      BY <1>3, Zenon
    <2>3. ~(m < n)
      BY <1>4, <2>1, <2>2, Zenon
    <2> QED
      BY <2>1, <2>3
  <1> QED
    BY <1>5 DEF Lowest

\* inj_session_sync_descriptors.
LEMMA SyncSound ==
  ASSUME NEW s, SessionSound(s), NEW g, NEW mask \in SUBSET Nat
  PROVE  /\ SessionSound(SyncDescriptors(s, g, mask)) /\ SyncDescriptors(s, g, mask).boot = s.boot
         /\ SyncDescriptors(s, g, mask).judged \in SUBSET Nat
  <1> DEFINE t == [s EXCEPT !.complete = mask, !.judged = @ \intersect mask]
  <1>1. s \in Sessions
    BY DEF SessionSound
  <1>2. s.judged \intersect mask \in SUBSET Nat /\ s.judged \in SUBSET Nat
    BY <1>1 DEF Sessions
  <1>3. t \in Sessions /\ t.phase = s.phase /\ t.desc = s.desc /\ t.map = s.map /\ t.active = s.active
        /\ t.req = s.req /\ t.boot = s.boot
    BY <1>1, <1>2, Zenon DEF Sessions
  <1>4. SessionSound(t)
    BY <1>3 DEF SessionSound
  <1>5. t.judged \in SUBSET Nat
    BY <1>3 DEF Sessions
  <1> HIDE DEF t
  <1>6. SyncDescriptors(s, g, mask) \in {s, t}
    BY DEF SyncDescriptors, t
  <1> QED
    BY <1>2, <1>3, <1>4, <1>5, <1>6

\* inj_session_offer_layout.
LEMMA OfferSound ==
  ASSUME NEW s, SessionSound(s), NEW g, NEW slot \in Nat, NEW i \in Nat, NEW class \in Classes
  PROVE  /\ SessionSound(OfferLayout(s, g, slot, i, class))
         /\ OfferLayout(s, g, slot, i, class).boot = s.boot
  <1> DEFINE judged == [s EXCEPT !.judged = @ \union {slot}]
             rests == judged.phase \in {"WAIT_DESCRIPTOR", "NO_MOUSE"}
             adopted == [judged EXCEPT !.layout = [class |-> class, interface |-> i],
                           !.phase = IF @ \in {"WAIT_DESCRIPTOR", "NO_MOUSE"}
                                     THEN "WAIT_REPORT" ELSE @]
  <1>1. s \in Sessions /\ (s.req # NoRequest => s.req.kind \in Commands)
    BY DEF SessionSound
  <1>2. s.judged \union {slot} \in SUBSET Nat
    BY <1>1 DEF Sessions
  <1>3. /\ judged \in Sessions /\ judged.phase = s.phase /\ judged.desc = s.desc /\ judged.map = s.map
        /\ judged.active = s.active /\ judged.req = s.req /\ judged.boot = s.boot
    BY <1>1, <1>2, Zenon DEF Sessions
  <1>4. SessionSound(judged)
    BY <1>3 DEF SessionSound
  <1>5. [class |-> class, interface |-> i] \in Layouts
    BY Zenon DEF Layouts
  <1> HIDE DEF judged
  <1>6. (IF rests THEN "WAIT_REPORT" ELSE judged.phase) \in Phases
    BY <1>3 DEF Sessions, Phases
  <1>7. /\ adopted \in Sessions /\ adopted.desc = s.desc /\ adopted.map = s.map
        /\ adopted.active = s.active /\ adopted.req = s.req /\ adopted.boot = s.boot
        /\ adopted.phase = IF rests THEN "WAIT_REPORT" ELSE judged.phase
    BY <1>3, <1>5, <1>6, Zenon DEF Sessions
  <1> HIDE DEF adopted
  <1>8. SessionSound(adopted)
    BY <1>1, <1>3, <1>4, <1>7 DEF SessionSound, Uploading, Sending
  <1>9. OfferLayout(s, g, slot, i, class) \in {s, judged, adopted}
    BY DEF OfferLayout, judged, adopted
  <1> QED
    BY <1>3, <1>4, <1>7, <1>8, <1>9

-----------------------------------------------------------------------------
\* The values the map store starts from are of its types.
LEMMA StoreValues ==
  /\ NoBegin \in [desc : Nat, map : Nat, count : Nat] /\ NoBank \in Banks
  /\ StoreInit \in Stores
  <1>1. <<>> \in Seq(Frames) /\ 0 \in Nat
    OBVIOUS
  <1>2. NoBegin \in [desc : Nat, map : Nat, count : Nat] /\ NoBank \in Banks
    BY <1>1, Zenon DEF NoBegin, NoBank, Banks
  <1>3. StoreInit \in Stores
    BY <1>1, <1>2, Zenon DEF StoreInit, Stores
  <1> QED
    BY <1>2, <1>3

\* The store's three messages keep its type.
LEMMA StoreTypes ==
  ASSUME NEW st \in Stores, NEW f \in Frames, NEW g
  PROVE  /\ StoreBegin(st, f) \in Stores /\ StoreEntry(st, f) \in Stores
         /\ StoreCommit(st, f, g) \in Stores
  <1>1. <<>> \in Seq(Frames)
    OBVIOUS
  <1>2. Header(f) \in [desc : Nat, map : Nat, count : Nat]
    <2>1. f.desc \in Nat /\ f.map \in Nat /\ f.arg \in Nat
      BY PlaneAssumption, WireAssumption DEF Frames, Generations
    <2> QED
      BY <2>1, Zenon DEF Header
  <1>3. StoreBegin(st, f) \in Stores
    BY <1>1, <1>2, Zenon DEF Stores, StoreBegin
  <1>4. StoreEntry(st, f) \in Stores
    <2>1. st.entries \in Seq(Frames)
      BY DEF Stores
    <2>2. (IF Len(st.entries) > MaxFields THEN st.entries ELSE Append(st.entries, f)) \in Seq(Frames)
      BY <2>1
    <2> QED
      BY <2>2, Zenon DEF Stores, StoreEntry
  <1>5. StoreCommit(st, f, g) \in Stores
    BY Zenon DEF Stores, StoreCommit, CommitMatches
  <1> QED
    BY <1>3, <1>4, <1>5

\* So does the end of a validation.
LEMMA StoreEndType ==
  ASSUME NEW st \in Stores, NEW g
  PROVE  StoreEnd(st, g) \in Stores
  <1>1. <<>> \in Seq(Frames)
    OBVIOUS
  <1>2. Flipped(st) \in Banks
    BY Zenon DEF Flipped, Banks, Stores
  <1>3. (IF Accepted(st, g) THEN Flipped(st) ELSE st.bank) \in Banks
    BY <1>2 DEF Stores
  <1> QED
    BY <1>1, <1>3, StoreValues, Zenon DEF Stores, StoreEnd

\* And so does an invalidation.
LEMMA StoreInvalidateType ==
  ASSUME NEW st \in Stores
  PROVE  StoreInvalidate(st) \in Stores
  <1> DEFINE stopped == IF st.state = "RECEIVE"
               THEN [st EXCEPT !.state = "IDLE", !.begin = NoBegin, !.entries = <<>>] ELSE st
  <1>1. stopped \in Stores
    <2>1. <<>> \in Seq(Frames)
      OBVIOUS
    <2> QED
      BY <2>1, StoreValues, Zenon DEF Stores
  <1>2. StoreInvalidate(st) = [stopped EXCEPT !.latched = TRUE, !.bank.valid = FALSE]
    BY DEF StoreInvalidate
  <1> HIDE DEF stopped
  <1>3. [stopped.bank EXCEPT !.valid = FALSE] \in Banks
    BY <1>1, Zenon DEF Stores, Banks
  <1> QED
    BY <1>1, <1>2, <1>3, Zenon DEF Stores

\* What an invalidation leaves: no upload being received, none in the bank.
LEMMA InvalidateKeeps ==
  ASSUME NEW st \in Stores
  PROVE  /\ StoreInvalidate(st).latched = TRUE /\ StoreInvalidate(st).state # "RECEIVE"
         /\ StoreInvalidate(st).state = "VALIDATE" =>
              /\ st.state = "VALIDATE" /\ StoreInvalidate(st).begin = st.begin
              /\ StoreInvalidate(st).entries = st.entries
              /\ StoreInvalidate(st).matches = st.matches
         /\ StoreInvalidate(st).state = "IDLE" => st.state \in {"IDLE", "RECEIVE"}
         /\ StoreInvalidate(st).bank.valid = FALSE
         /\ StoreInvalidate(st).bank.desc = st.bank.desc
         /\ StoreInvalidate(st).bank.map = st.bank.map
         /\ StoreInvalidate(st).bank.entries = st.bank.entries
  <1> DEFINE stopped == IF st.state = "RECEIVE"
               THEN [st EXCEPT !.state = "IDLE", !.begin = NoBegin, !.entries = <<>>] ELSE st
             new == [stopped EXCEPT !.latched = TRUE, !.bank.valid = FALSE]
  <1>1. /\ stopped.state # "RECEIVE" /\ stopped.bank = st.bank
        /\ stopped.state = "VALIDATE" => stopped = st
        /\ stopped.state = "IDLE" => st.state \in {"IDLE", "RECEIVE"}
    BY DEF Stores
  <1>2. stopped \in Stores
    <2>1. <<>> \in Seq(Frames)
      OBVIOUS
    <2> QED
      BY <2>1, StoreValues, Zenon DEF Stores
  <1> HIDE DEF stopped
  <1>3. /\ new.latched = TRUE /\ new.state = stopped.state /\ new.begin = stopped.begin
        /\ new.entries = stopped.entries /\ new.matches = stopped.matches
        /\ new.bank = [stopped.bank EXCEPT !.valid = FALSE]
    BY <1>2 DEF Stores
  <1>4. /\ new.bank.valid = FALSE /\ new.bank.desc = stopped.bank.desc
        /\ new.bank.map = stopped.bank.map /\ new.bank.entries = stopped.bank.entries
    BY <1>2, <1>3 DEF Stores, Banks
  <1>5. StoreInvalidate(st) = new
    BY DEF StoreInvalidate, stopped
  <1> HIDE DEF new
  <1> QED
    BY <1>1, <1>3, <1>4, <1>5

\* An invalidation keeps the entries received, or forgets them all.
LEMMA InvalidateEntries ==
  ASSUME NEW st \in Stores
  PROVE  StoreInvalidate(st).entries \in {<<>>, st.entries}
  <1> DEFINE stopped == IF st.state = "RECEIVE"
               THEN [st EXCEPT !.state = "IDLE", !.begin = NoBegin, !.entries = <<>>] ELSE st
  <1>1. stopped.entries \in {<<>>, st.entries} /\ DOMAIN stopped = DOMAIN st
    BY DEF Stores
  <1>2. "entries" \in DOMAIN stopped
    BY <1>1 DEF Stores
  <1>3. StoreInvalidate(st) = [stopped EXCEPT !.latched = TRUE, !.bank.valid = FALSE]
    BY DEF StoreInvalidate
  <1> HIDE DEF stopped
  <1> QED
    BY <1>1, <1>2, <1>3

\* The end of a validation.
LEMMA EndKeeps ==
  ASSUME NEW st \in Stores, NEW g
  PROVE  /\ StoreEnd(st, g).state = "IDLE" /\ StoreEnd(st, g).latched = st.latched
         /\ StoreEnd(st, g).bank = IF Accepted(st, g) THEN Flipped(st) ELSE st.bank
  BY DEF Stores, StoreEnd

\* The receive side's other inputs leave the bank alone.
LEMMA BeginKeeps ==
  ASSUME NEW st \in Stores, NEW f \in Frames
  PROVE  /\ StoreBegin(st, f).state = "RECEIVE" /\ StoreBegin(st, f).begin = Header(f)
         /\ StoreBegin(st, f).entries = <<>> /\ StoreBegin(st, f).latched = FALSE
         /\ StoreBegin(st, f).bank = st.bank
  BY DEF Stores, StoreBegin

\* An entry is appended, up to the one that overflows.
LEMMA EntryKeeps ==
  ASSUME NEW st \in Stores, NEW f \in Frames
  PROVE  /\ StoreEntry(st, f).state = st.state /\ StoreEntry(st, f).begin = st.begin
         /\ StoreEntry(st, f).entries = IF Len(st.entries) > MaxFields THEN st.entries
                                        ELSE Append(st.entries, f)
         /\ StoreEntry(st, f).latched = st.latched /\ StoreEntry(st, f).bank = st.bank
  BY DEF Stores, StoreEntry

\* A commit starts the validation of what was received.
LEMMA CommitKeeps ==
  ASSUME NEW st \in Stores, NEW f \in Frames, NEW g
  PROVE  /\ StoreCommit(st, f, g).state = "VALIDATE" /\ StoreCommit(st, f, g).begin = st.begin
         /\ StoreCommit(st, f, g).matches = CommitMatches(st, f, g)
         /\ StoreCommit(st, f, g).entries = st.entries
         /\ StoreCommit(st, f, g).latched = st.latched /\ StoreCommit(st, f, g).bank = st.bank
  BY DEF Stores, StoreCommit

-----------------------------------------------------------------------------
\* The map store is not touched, and the firmware runs on.
LEMMA StoreRests ==
  ASSUME IInv, ses'.boot = ses.boot, UNCHANGED <<store, generation>>
  PROVE  ReceivingSound' /\ BankSound'
  BY DEF IInv, ReceivingSound, BankSound

\* No frame moves, and the firmware runs on.
LEMMA FramesRest ==
  ASSUME IInv, ses'.boot = ses.boot, UNCHANGED <<rx, staged, ring>>
  PROVE  FramesSound'
  BY DEF IInv, FramesSound, FrameSound

\* The link or the session falls.
LEMMA InvalidatedInv ==
  ASSUME IInv, Invalidated
  PROVE  /\ rx' = None /\ staged' = None /\ last_rx' = NoSequence /\ last_rx' \in 1..SeqModulus
         /\ store' \in Stores /\ store'.state # "RECEIVE" /\ ~store'.bank.valid /\ store'.latched
         /\ ReceivingSound' /\ BankSound'
  <1>1. store \in Stores /\ store' = StoreInvalidate(store)
    BY DEF IInv, PlaneTyped, Invalidated
  <1>2. rx' = None /\ staged' = None /\ last_rx' = NoSequence /\ last_rx' \in 1..SeqModulus
    BY WireAssumption DEF Invalidated, NoSequence
  <1>3. /\ store'.latched /\ store'.state # "RECEIVE" /\ ~store'.bank.valid
        /\ store'.state = "VALIDATE" =>
             /\ store.state = "VALIDATE" /\ store'.begin = store.begin
             /\ store'.entries = store.entries /\ store'.matches = store.matches
        /\ store'.bank.desc = store.bank.desc /\ store'.bank.map = store.bank.map
        /\ store'.bank.entries = store.bank.entries
    BY <1>1, InvalidateKeeps
  <1>4. store' \in Stores
    BY <1>1, StoreInvalidateType
  <1>5. ReceivingSound'
    BY <1>3, <1>4 DEF IInv, ReceivingSound, Stores
  <1>6. BankSound'
    BY <1>3 DEF IInv, BankSound
  <1> QED
    BY <1>2, <1>3, <1>4, <1>5, <1>6

-----------------------------------------------------------------------------
\* What the MCU does without the link: a session of the same run.
LEMMA SessionStep ==
  ASSUME IInv, SessionSound(ses'), ses'.boot = ses.boot, SetSound(set'),
         snap' \in Snapshots \cup {None}, requests' \in Nat,
         UNCHANGED <<planeVars, link, ring, late, held>>
  PROVE  IInv'
  <1>1. McuTyped'
    BY DEF IInv, McuTyped
  <1>2. PlaneTyped' /\ Forgotten'
    BY DEF IInv, PlaneTyped, Forgotten, invalidate, planeVars
  <1>3. FramesSound' /\ ReceivingSound' /\ BankSound'
    BY FramesRest, StoreRests DEF planeVars
  <1> QED
    BY <1>1, <1>2, <1>3 DEF IInv

\* link_descriptor_service keeps IInv.
LEMMA ServiceInv ==
  ASSUME IInv, Service
  PROVE  IInv'
  <1>1. SessionSound(ses) /\ SetSound(set) /\ snap \in Snapshots \cup {None} /\ requests \in Nat
    BY DEF IInv, McuTyped
  <1>2. complete_mask(set) \in SUBSET Nat /\ set.slots \in Seq(Nat)
    BY <1>1 DEF complete_mask, SetSound
  <1>3. SessionSound(ses') /\ ses'.boot = ses.boot
    BY <1>1, <1>2, SyncSound DEF Service, Reconciled
  <1>4. UNCHANGED <<planeVars, link, ring, late, held, requests>>
    BY DEF Service, historyVars
  <1>5. CASE UNCHANGED <<set, snap>>
    BY <1>1, <1>3, <1>4, <1>5, SessionStep
  <1>6. CASE /\ Redirtied # {}
             /\ set' = [set EXCEPT !.dirty = Redirtied \ {Lowest(Redirtied)}]
             /\ snap' = Snapshot(set, Lowest(Redirtied))
    <2>1. Redirtied \subseteq complete_mask(set)
      BY <1>1 DEF Redirtied, Redirty, complete_mask, SetSound
    <2>2. Lowest(Redirtied) \in complete_mask(set)
      BY <1>2, <1>6, <2>1, LowestIn
    <2> DEFINE dirty == Redirtied \ {Lowest(Redirtied)}
    <2>3. dirty \in SUBSET Nat /\ dirty \subseteq complete_mask(set)
      BY <1>2, <2>1
    <2> HIDE DEF dirty
    <2>4. /\ set' \in [desc : Generations \cup {0}, slots : Seq(Nat), dirty : SUBSET Nat]
          /\ set'.desc = set.desc /\ set'.slots = set.slots /\ set'.dirty = dirty
      BY <1>1, <1>6, <2>3, Zenon DEF SetSound, dirty
    <2>5. SetSound(set')
      BY <1>1, <2>3, <2>4 DEF SetSound, complete_mask
    <2>6. snap' \in Snapshots
      <3>1. Lowest(Redirtied) \in DOMAIN set.slots /\ Lowest(Redirtied) \in Nat
        BY <1>2, <2>2 DEF complete_mask
      <3>2. set.desc \in Generations /\ set.slots[Lowest(Redirtied)] \in Interfaces(set.desc)
        BY <1>1, <3>1 DEF SetSound
      <3>3. set.slots[Lowest(Redirtied)] \in Nat
        BY <1>2, <3>1
      <3> QED
        BY <1>6, <3>1, <3>2, <3>3 DEF Snapshot, Snapshots
    <2> QED
      BY <1>1, <1>3, <1>4, <2>5, <2>6, SessionStep
  <1> QED
    BY <1>5, <1>6 DEF Service

\* The verdict on a snapshot keeps IInv.
LEMMA OfferInv ==
  ASSUME IInv, Offer
  PROVE  IInv'
  <1>1. SessionSound(ses) /\ SetSound(set) /\ snap \in Snapshots /\ requests \in Nat
    BY DEF IInv, McuTyped, Offer
  <1>2. /\ UNCHANGED <<planeVars, link, ring, late, held, requests>> /\ set' = set
        /\ snap' \in Snapshots \cup {None}
    BY DEF Offer, historyVars
  <1>3. snap.slot \in Nat /\ snap.interface \in Nat /\ Devices[snap.desc][snap.interface] \in Classes
    BY <1>1, PlaneAssumption DEF Snapshots, Interfaces, Generations, Classes
  <1>4. SessionSound(ses') /\ ses'.boot = ses.boot
    BY <1>1, <1>3, OfferSound DEF Offer
  <1> QED
    BY <1>1, <1>2, <1>4, SessionStep

\* A request keeps IInv.
LEMMA RequestInv ==
  ASSUME IInv, NEW kind \in Kinds, Request(kind)
  PROVE  IInv'
  <1>1. SessionSound(ses) /\ SetSound(set) /\ snap \in Snapshots \cup {None} /\ requests \in Nat
    BY DEF IInv, McuTyped
  <1>2. UNCHANGED <<planeVars, link, ring, late, held>> /\ set' = set /\ snap' = snap
        /\ requests' \in Nat
    BY <1>1 DEF Request
  <1>3. SessionSound(ses') /\ ses'.boot = ses.boot
    <2> DEFINE req == [kind |-> kind, id |-> requests + 1]
    <2>1. kind \in Commands /\ req.kind = kind
      BY LinkAssumption
    <2>2. requests + 1 \in Nat
      BY <1>1
    <2>3. req \in PendingRequests
      BY <2>1, <2>2, Zenon DEF PendingRequests
    <2> HIDE DEF req
    <2>4. ses' = [ses EXCEPT !.req = req]
      BY DEF Request, req
    <2>5. /\ ses' \in Sessions /\ ses'.phase = ses.phase /\ ses'.desc = ses.desc /\ ses'.map = ses.map
          /\ ses'.active = ses.active /\ ses'.req = req /\ ses'.boot = ses.boot
      BY <1>1, <2>3, <2>4, Zenon DEF Sessions, SessionSound
    <2> QED
      BY <1>1, <2>1, <2>5 DEF SessionSound
  <1> QED
    BY <1>1, <1>2, <1>3, SessionStep

\* A slot that completes with mcu_ready low keeps IInv.
LEMMA SlotLowInv ==
  ASSUME IInv, SlotLow
  PROVE  IInv'
  <1>1. SessionSound(ses) /\ SetSound(set) /\ snap \in Snapshots \cup {None} /\ requests \in Nat
    BY DEF IInv, McuTyped
  <1>2. SessionSound(ses') /\ ses'.boot = ses.boot
    BY <1>1, SetLinkSound DEF SlotLow
  <1> QED
    BY <1>1, <1>2, SessionStep DEF SlotLow

\* So does the rest of the recovery, up to the rings.
LEMMA RequestsOffInv ==
  ASSUME IInv, RequestsOff
  PROVE  IInv'
  <1>1. McuTyped'
    BY DEF IInv, McuTyped, RequestsOff, IdleRing, historyVars
  <1>2. PlaneTyped'
    BY DEF IInv, PlaneTyped, RequestsOff, planeVars
  <1>3. Forgotten'
    BY DEF IInv, Forgotten, invalidate, RequestsOff, planeVars
  <1>4. FramesSound'
    BY NoFrames DEF IInv, FramesSound, FrameSound, RequestsOff, IdleRing, planeVars
  <1>5. ReceivingSound' /\ BankSound'
    BY StoreRests DEF RequestsOff, planeVars
  <1> QED
    BY <1>1, <1>2, <1>3, <1>4, <1>5 DEF IInv

\* The rise of mcu_ready keeps IInv: nothing was left of the link before.
LEMMA ReadyHighInv ==
  ASSUME IInv, ReadyHigh
  PROVE  IInv'
  <1>1. McuTyped'
    BY DEF IInv, McuTyped, ReadyHigh, historyVars
  <1>2. PlaneTyped'
    BY DEF IInv, PlaneTyped, ReadyHigh, LinkRises, Triggered, deviceVars, rxVars
  <1>3. Forgotten'
    BY DEF IInv, Forgotten, invalidate, ReadyHigh, LinkRises, deviceVars, rxVars
  <1>4. FramesSound' /\ ReceivingSound' /\ BankSound'
    BY FramesRest, StoreRests DEF ReadyHigh, LinkRises, deviceVars, rxVars
  <1> QED
    BY <1>1, <1>2, <1>3, <1>4 DEF IInv

\* The link falls under the MCU: its recovery, or its reset.
LEMMA LinkFallsInv ==
  ASSUME IInv, LinkFalls, McuTyped', link' # "up", link' = "off" => ring' = IdleRing,
         tx' \in Messages \cup {None}, FrameSound(ring[1])', FrameSound(ring[2])'
  PROVE  IInv'
  <1>1. PlaneTyped'
    BY InvalidatedInv DEF IInv, PlaneTyped, LinkFalls, deviceVars
  <1>2. Forgotten'
    BY InvalidatedInv, Zenon DEF IInv, Forgotten, invalidate, LinkFalls
  <1>3. FramesSound'
    BY InvalidatedInv, NoFrames DEF FramesSound, FrameSound, LinkFalls
  <1> QED
    BY <1>1, <1>2, <1>3, InvalidatedInv DEF IInv, LinkFalls

\* The fall of mcu_ready keeps IInv.
LEMMA ReadyLowInv ==
  ASSUME IInv, ReadyLow
  PROVE  IInv'
  <1>1. SessionSound(ses') /\ ses'.boot = ses.boot
    BY SetLinkSound DEF IInv, McuTyped, ReadyLow
  <1>2. tx' \in Messages \cup {None} /\ held' \in Messages \cup {None}
    BY DEF IInv, PlaneTyped, McuTyped, ReadyLow
  <1>3. McuTyped'
    BY <1>1, <1>2 DEF IInv, McuTyped, ReadyLow, Fault
  <1>4. FrameSound(ring[1])' /\ FrameSound(ring[2])'
    BY <1>1 DEF IInv, FramesSound, FrameSound, ReadyLow
  <1> QED
    BY <1>2, <1>3, <1>4, LinkFallsInv DEF ReadyLow

\* A reset keeps IInv: what the plane still validates is of another run, and revoked.
LEMMA ResetInv ==
  ASSUME IInv, Reset
  PROVE  IInv'
  <1>1. SessionInit(ses.boot + 1) \in Sessions
    <2>1. ses.boot + 1 \in Nat /\ {} \in SUBSET Nat /\ 0 \in Generations \cup {0}
      BY DEF IInv, McuTyped, SessionSound, Sessions
    <2> QED
      BY <2>1, SessionValues, Zenon DEF SessionInit, Sessions
  <1>2. SessionSound(ses')
    BY <1>1 DEF Reset, SessionInit, SessionSound, Uploading, Sending
  <1>3. SetSound(set')
    <2>1. <<>> \in Seq(Nat) /\ {} \in SUBSET Nat /\ DOMAIN <<>> = {}
      OBVIOUS
    <2>2. EmptySet \in [desc : Generations \cup {0}, slots : Seq(Nat), dirty : SUBSET Nat]
      BY <2>1, Zenon DEF EmptySet
    <2>3. EmptySet.slots = <<>> /\ EmptySet.dirty = {}
      BY DEF EmptySet
    <2> QED
      BY <2>1, <2>2, <2>3 DEF SetSound, Reset
  <1>4. McuTyped'
    BY <1>2, <1>3 DEF IInv, McuTyped, Reset, IdleRing, Fault
  <1>5. tx' \in Messages \cup {None}
    BY DEF IInv, PlaneTyped, Reset
  <1>6. FrameSound(ring[1])' /\ FrameSound(ring[2])'
    BY NoFrames DEF FrameSound, Reset, IdleRing
  <1> QED
    BY <1>4, <1>5, <1>6, LinkFallsInv DEF Reset

\* The device's side of the plane moves, and the MCU does not.
LEMMA DeviceFallsInv ==
  ASSUME IInv, Invalidated, session' = FALSE, failed' \in BOOLEAN, generation' \in Generations,
         export' \in [desc : Generations, next : Nat],
         export'.next \in 0..Len(Devices[export'.desc]),
         UNCHANGED <<link_ready, status, export_pending, monitor, tx, mcuVars, requests>>
  PROVE  IInv'
  <1>1. McuTyped'
    BY DEF IInv, McuTyped, mcuVars
  <1>2. PlaneTyped'
    BY InvalidatedInv DEF IInv, PlaneTyped
  <1>3. Forgotten'
    BY InvalidatedInv, Zenon DEF IInv, Forgotten, invalidate, mcuVars
  <1>4. FramesSound'
    BY InvalidatedInv, NoFrames DEF IInv, FramesSound, FrameSound, mcuVars
  <1> QED
    BY <1>1, <1>2, <1>3, <1>4, InvalidatedInv DEF IInv

\* What the device does keeps IInv.
LEMMA DeviceInv ==
  ASSUME IInv, Device
  PROVE  IInv'
  <1>1. CASE PollFailure /\ Fault /\ UNCHANGED <<mcuVars, acted, lost, blind>>
    <2>1. /\ generation' \in Generations /\ export' \in [desc : Generations, next : Nat]
          /\ export'.next \in 0..Len(Devices[export'.desc])
      BY <1>1 DEF IInv, PlaneTyped, PollFailure, txVars
    <2> QED
      BY <1>1, <2>1, DeviceFallsInv DEF PollFailure, txVars, Fault
  <1>2. CASE Detach /\ McuUnchanged
    <2>1. generation' \in Generations
      BY <1>2, PlaneAssumption DEF IInv, PlaneTyped, Detach, Generations
    <2>2. export' \in [desc : Generations, next : Nat] /\ export'.next = 0
          /\ export'.desc \in Generations
      BY <1>2 DEF IInv, PlaneTyped, Detach
    <2>3. export'.next \in 0..Len(Devices[export'.desc])
      BY <2>2, PlaneAssumption DEF Generations
    <2> QED
      BY <1>2, <2>1, <2>2, <2>3, DeviceFallsInv DEF Detach, McuUnchanged, historyVars
  <1>3. CASE Enumerated /\ McuUnchanged
    <2>1. McuTyped'
      BY <1>3 DEF IInv, McuTyped, McuUnchanged, mcuVars, historyVars
    <2>2. PlaneTyped'
      BY <1>3 DEF IInv, PlaneTyped, Enumerated, Triggered, rxVars
    <2>3. Forgotten'
      BY <1>3 DEF IInv, Forgotten, invalidate, Enumerated, McuUnchanged, mcuVars, rxVars
    <2>4. FramesSound' /\ ReceivingSound' /\ BankSound'
      BY <1>3, FramesRest, StoreRests DEF Enumerated, McuUnchanged, mcuVars, rxVars
    <2> QED
      BY <2>1, <2>2, <2>3, <2>4 DEF IInv
  <1> QED
    BY <1>1, <1>2, <1>3 DEF Device

-----------------------------------------------------------------------------
\* The staged frame leaves the plane.
LEMMA StagedFrame ==
  ASSUME IInv, staged # None
  PROVE  /\ ~invalidate /\ staged.frame \in Frames /\ staged.frame.boot = ses.boot
         /\ staged.frame.type = "MAP_BEGIN" => staged.frame.arg = EntryCount
  <1>1. staged.frame \in Frames
    BY DEF IInv, PlaneTyped
  <1> QED
    BY <1>1 DEF IInv, Forgotten, FramesSound, FrameSound

\* A staged frame leaves its number behind.
LEMMA FrameLeavesInv ==
  ASSUME IInv, staged # None, FrameLeaves
  PROVE  staged' = None /\ last_rx' \in 1..SeqModulus
  <1>1. staged.frame.seq \in 1..SeqModulus
    BY StagedFrame, WireAssumption DEF Frames
  <1> QED
    BY <1>1 DEF IInv, PlaneTyped, FrameLeaves

\* map_receive of a staged frame.
LEMMA MapMessageSound ==
  ASSUME IInv, staged # None, store' = MapMessage(staged.frame), ses'.boot = ses.boot,
         generation' = generation
  PROVE  /\ store' \in Stores /\ ReceivingSound' /\ BankSound'
         /\ store'.latched => store'.state # "RECEIVE" /\ ~store'.bank.valid
  <1> DEFINE f == staged.frame
  <1>1. f \in Frames /\ f.boot = ses.boot /\ (f.type = "MAP_BEGIN" => f.arg = EntryCount)
    BY StagedFrame
  <1>2. store \in Stores
    BY DEF IInv, PlaneTyped
  <1> HIDE DEF f
  <1>3. store'.bank = store.bank => BankSound'
    BY DEF IInv, BankSound
  <1>4. CASE f.type = "MAP_BEGIN" /\ ~busy(store)
    <2>1. store' = StoreBegin(store, f)
      BY <1>4 DEF MapMessage, f
    <2>2. /\ store'.state = "RECEIVE" /\ store'.begin = Header(f) /\ store'.entries = <<>>
          /\ store'.latched = FALSE /\ store'.bank = store.bank
      BY <1>1, <1>2, <2>1, BeginKeeps
    <2>3. ReceivingSound'
      BY <1>1, <1>4, <2>2 DEF ReceivingSound, Header
    <2> QED
      BY <1>1, <1>2, <1>3, <2>1, <2>2, <2>3, StoreTypes
  <1>5. CASE f.type = "MAP_ENTRY" /\ store.state = "RECEIVE"
    <2>1. store' = StoreEntry(store, f)
      BY <1>5 DEF MapMessage, f
    <2>2. /\ store'.state = store.state /\ store'.begin = store.begin
          /\ store'.entries = IF Len(store.entries) > MaxFields THEN store.entries
                              ELSE Append(store.entries, f)
          /\ store'.latched = store.latched /\ store'.bank = store.bank
      BY <1>1, <1>2, <2>1, EntryKeeps
    <2>3. store.entries \in Seq(Frames) /\ store.begin.count = EntryCount /\ ~store.latched
          /\ \A i \in 1..Len(store.entries) : store.entries[i].boot = ses.boot
      BY <1>2, <1>5 DEF IInv, ReceivingSound, Forgotten, Stores
    <2>4. \A i \in 1..Len(store'.entries) : store'.entries[i].boot = ses.boot
      BY <1>1, <2>2, <2>3
    <2>5. ReceivingSound'
      BY <1>5, <2>2, <2>3, <2>4 DEF ReceivingSound
    <2> QED
      BY <1>1, <1>2, <1>3, <2>1, <2>2, <2>3, <2>5, StoreTypes
  <1>6. CASE f.type = "MAP_COMMIT" /\ store.state = "RECEIVE"
    <2>1. store' = StoreCommit(store, f, generation)
      BY <1>6 DEF MapMessage, f
    <2>2. /\ store'.state = "VALIDATE" /\ store'.begin = store.begin
          /\ store'.matches = CommitMatches(store, f, generation)
          /\ store'.entries = store.entries
          /\ store'.latched = store.latched /\ store'.bank = store.bank
      BY <1>1, <1>2, <2>1, CommitKeeps
    <2>3. store.begin.count = EntryCount /\ ~store.latched
          /\ \A i \in 1..Len(store.entries) : store.entries[i].boot = ses.boot
      BY <1>6 DEF IInv, ReceivingSound, Forgotten
    <2>4. ReceivingSound'
      BY <2>2, <2>3 DEF ReceivingSound, CommitMatches
    <2> QED
      BY <1>1, <1>2, <1>3, <2>1, <2>2, <2>3, <2>4, StoreTypes
  <1>7. CASE store' = store
    BY <1>2, <1>3, <1>7 DEF IInv, ReceivingSound, Forgotten
  <1> QED
    BY <1>4, <1>5, <1>6, <1>7 DEF MapMessage, f

\* A staged frame leaves, and the MCU does not move.
LEMMA LeavesInv ==
  ASSUME IInv, staged # None, FrameLeaves,
         \/ store' = store
         \/ store' = MapMessage(staged.frame),
         UNCHANGED <<link_ready, deviceVars, rx, txVars, mcuVars, requests>>
  PROVE  IInv'
  <1>1. store' \in Stores /\ ReceivingSound' /\ BankSound'
        /\ (store'.latched => store'.state # "RECEIVE" /\ ~store'.bank.valid)
    <2>1. CASE store' = store
      BY <2>1, StoreRests DEF IInv, PlaneTyped, Forgotten, deviceVars, mcuVars
    <2>2. CASE store' = MapMessage(staged.frame)
      BY <2>2, MapMessageSound DEF deviceVars, mcuVars
    <2> QED
      BY <2>1, <2>2
  <1>2. McuTyped'
    BY DEF IInv, McuTyped, mcuVars
  <1>3. PlaneTyped'
    BY <1>1, FrameLeavesInv DEF IInv, PlaneTyped, deviceVars, txVars
  <1>4. Forgotten'
    BY <1>1, StagedFrame DEF IInv, Forgotten, invalidate, deviceVars, mcuVars
  <1>5. FramesSound'
    BY FrameLeavesInv DEF IInv, FramesSound, FrameSound, mcuVars
  <1> QED
    BY <1>1, <1>2, <1>3, <1>4, <1>5 DEF IInv

\* Staging keeps IInv.
LEMMA StageInv ==
  ASSUME IInv, Stage, UNCHANGED <<mcuVars, requests>>
  PROVE  IInv'
  <1>1. rx \in Frames /\ sequence_class_allowed(rx) \in BOOLEAN
    BY DEF IInv, PlaneTyped, Stage, sequence_class_allowed
  <1>2. McuTyped'
    BY DEF IInv, McuTyped, mcuVars
  <1>3. staged' \in [type : {"STAGED"}, frame : Frames, allowed : BOOLEAN] /\ staged'.frame = rx
    BY <1>1 DEF Stage
  <1>4. PlaneTyped'
    BY <1>3 DEF IInv, PlaneTyped, Stage, deviceVars, txVars
  <1>5. Forgotten'
    BY DEF IInv, Forgotten, invalidate, Stage, deviceVars, mcuVars
  <1>6. FramesSound'
    BY <1>3, NoFrames DEF IInv, FramesSound, FrameSound, Stage, mcuVars
  <1>7. ReceivingSound' /\ BankSound'
    BY StoreRests DEF Stage, deviceVars, mcuVars
  <1> QED
    BY <1>2, <1>4, <1>5, <1>6, <1>7 DEF IInv

\* The end of a validation keeps IInv: what is accepted and not revoked is one upload.
LEMMA ValidateInv ==
  ASSUME IInv, Validate, UNCHANGED <<mcuVars, requests>>
  PROVE  IInv'
  <1>1. store \in Stores /\ generation \in Generations /\ store' = StoreEnd(store, generation)
        /\ store.state = "VALIDATE"
    BY DEF IInv, PlaneTyped, Validate
  <1>2. /\ store'.state = "IDLE" /\ store'.latched = store.latched
        /\ store'.bank = IF Accepted(store, generation) THEN Flipped(store) ELSE store.bank
    BY <1>1, EndKeeps
  <1>3. store' \in Stores
    BY <1>1, StoreEndType
  <1>4. status' \in Messages \cup {None}
    <2>1. store'.bank.map \in Nat
      BY <1>3 DEF Stores, Banks
    <2> QED
      BY <1>1, <2>1 DEF IInv, PlaneTyped, Validate, Message, Messages
  <1>5. McuTyped'
    BY DEF IInv, McuTyped, mcuVars
  <1>6. PlaneTyped'
    BY <1>3, <1>4 DEF IInv, PlaneTyped, Validate, deviceVars
  <1>7. store'.bank.valid => ~store.latched
    <2>1. store.bank.valid => ~store.latched
      BY DEF IInv, Forgotten
    <2>2. Flipped(store).valid = ~store.latched
      BY DEF Flipped
    <2> QED
      BY <1>2, <2>1, <2>2
  <1>8. Forgotten'
    BY <1>1, <1>2, <1>7 DEF IInv, Forgotten, invalidate, Validate, deviceVars, mcuVars
  <1>9. FramesSound'
    BY FramesRest DEF Validate, mcuVars
  <1>10. ReceivingSound'
    BY <1>2 DEF ReceivingSound
  <1>11. BankSound'
    <2>1. CASE Accepted(store, generation)
      <3>1. /\ Len(store.entries) = EntryCount /\ store.begin.desc = generation
            /\ \A i \in 1..Len(store.entries) :
                 /\ store.entries[i].desc = store.begin.desc
                 /\ store.entries[i].map = store.begin.map
                 /\ store.entries[i].arg = i - 1
            /\ ~store.latched => \A i \in 1..Len(store.entries) : store.entries[i].boot = ses.boot
        BY <1>1, <2>1 DEF IInv, ReceivingSound, Accepted, EntriesMatch
      <3>2. /\ store'.bank.entries = store.entries /\ store'.bank.desc = store.begin.desc
            /\ store'.bank.map = store.begin.map /\ store'.bank.valid = ~store.latched
        BY <1>2, <2>1 DEF Flipped
      <3> QED
        BY <3>1, <3>2, ZenonT(60) DEF BankSound, Validate, deviceVars, mcuVars
    <2>2. CASE ~Accepted(store, generation)
      BY <1>2, <2>2 DEF IInv, BankSound, Validate, deviceVars, mcuVars
    <2> QED
      BY <2>1, <2>2
  <1> QED
    BY <1>5, <1>6, <1>8, <1>9, <1>10, <1>11 DEF IInv

\* The transmit side of the plane moves alone.
LEMMA TransmitInv ==
  ASSUME IInv, UNCHANGED <<link_ready, deviceVars, rxVars, mcuVars, requests>>,
         {status', monitor', tx'} \subseteq Messages \cup {None}, export_pending' \in BOOLEAN,
         export' \in [desc : Generations, next : Nat],
         export'.next \in 0..Len(Devices[export'.desc])
  PROVE  IInv'
  <1>1. McuTyped'
    BY DEF IInv, McuTyped, mcuVars
  <1>2. PlaneTyped'
    BY DEF IInv, PlaneTyped, deviceVars, rxVars
  <1>3. Forgotten'
    BY DEF IInv, Forgotten, invalidate, deviceVars, rxVars, mcuVars
  <1>4. FramesSound' /\ ReceivingSound' /\ BankSound'
    BY FramesRest, StoreRests DEF deviceVars, rxVars, mcuVars
  <1> QED
    BY <1>1, <1>2, <1>3, <1>4 DEF IInv

\* The plane's sources of messages keep IInv.
LEMMA SourcesInv ==
  ASSUME IInv, ExportStart \/ Fill \/ (\E i \in Interfaces(generation) : Report(i)),
         UNCHANGED <<mcuVars, requests>>
  PROVE  IInv'
  <1>1. /\ {status, monitor, tx} \subseteq Messages \cup {None} /\ export_pending \in BOOLEAN
        /\ export \in [desc : Generations, next : Nat] /\ generation \in Generations
        /\ export.next \in 0..Len(Devices[export.desc])
    BY DEF IInv, PlaneTyped
  <1>2. \A g \in Generations : Len(Devices[g]) \in Nat \ {0} /\ Interfaces(g) = 1..Len(Devices[g])
    BY PlaneAssumption DEF Generations, Interfaces
  <1>3. CASE ExportStart
    <2>1. export' \in [desc : Generations, next : Nat] /\ export'.next = 1 /\ export'.desc = generation
      BY <1>1, <1>3 DEF ExportStart
    <2>2. export'.next \in 0..Len(Devices[export'.desc])
      BY <1>1, <1>2, <2>1
    <2> QED
      BY <1>1, <1>3, <2>1, <2>2, TransmitInv DEF ExportStart
  <1>4. CASE Fill
    <2>1. CASE FillStatus \/ FillReport
      BY <1>1, <1>4, <2>1, TransmitInv DEF Fill, FillStatus, FillReport
    <2>2. CASE FillDescriptor
      <3> DEFINE next == IF export.next = Len(Devices[export.desc]) THEN 0 ELSE export.next + 1
      <3>1. export.desc \in Generations /\ export.next \in 1..Len(Devices[export.desc])
        BY <1>1, <1>2, <2>2 DEF FillDescriptor
      <3>2. next \in Nat /\ next \in 0..Len(Devices[export.desc])
        BY <1>2, <3>1
      <3>3. tx' \in Messages
        BY <1>2, <2>2, <3>1 DEF FillDescriptor, Message, Messages
      <3>4. export' = [export EXCEPT !.next = next]
        BY <2>2 DEF FillDescriptor
      <3> HIDE DEF next
      <3>5. /\ export' \in [desc : Generations, next : Nat]
            /\ export'.desc = export.desc /\ export'.next = next
        BY <1>1, <3>2, <3>4
      <3> QED
        BY <1>1, <1>4, <2>2, <3>2, <3>3, <3>5, TransmitInv DEF Fill, FillDescriptor
    <2> QED
      BY <1>4, <2>1, <2>2 DEF Fill
  <1>5. ASSUME NEW i \in Interfaces(generation), Report(i)
        PROVE  IInv'
    <2>1. monitor' \in Messages
      BY <1>1, <1>2, <1>5 DEF Report, Message, Messages
    <2> QED
      BY <1>1, <1>5, <2>1, TransmitInv DEF Report
  <1> QED
    BY <1>3, <1>4, <1>5

-----------------------------------------------------------------------------
\* A message leaves the descriptor set sound.
LEMMA ConsumedBySetSound ==
  ASSUME NEW d, SetSound(d), NEW msg \in Messages \cup {None}
  PROVE  SetSound(ConsumedBySet(d, msg))
  <1>1. CASE msg.type = "DESCRIPTOR"
    <2>1. msg.desc \in Generations /\ msg.arg \in Interfaces(msg.desc)
      BY <1>1 DEF None, Messages
    <2> QED
      BY <1>1, <2>1, PushSound DEF ConsumedBySet
  <1> QED
    BY <1>1 DEF ConsumedBySet

\* The retirement interrupt in time.
LEMMA RetireSound ==
  ASSUME IInv, NEW msg \in Messages \cup {None}, Retire(msg)
  PROVE  /\ SessionSound(ses') /\ ses'.boot = ses.boot /\ SetSound(set') /\ held' = None
         /\ \E f : /\ ring' = <<ring[2], f>> /\ f \in Frames \cup {Idle}
                   /\ f \in Frames => f.boot = ses.boot /\ (f.type = "MAP_BEGIN" => f.arg = EntryCount)
  <1> DEFINE up == SetLink(ses, TRUE)
             first == Consume(up, set, held)
             waiting == ConsumedBySet(set, held)
             second == Consume(first, waiting, msg)
             out == FillTx(second)
  <1>1. SessionSound(ses) /\ SetSound(set) /\ held \in Messages \cup {None}
    BY DEF IInv, McuTyped
  <1>2. SessionSound(up) /\ up.boot = ses.boot
    BY <1>1, SetLinkSound
  <1>3. SessionSound(first) /\ first.boot = up.boot
    <2> HIDE DEF up
    <2> QED
      BY <1>1, <1>2, ConsumeSound
  <1>4. SetSound(waiting)
    BY <1>1, ConsumedBySetSound
  <1>5. SessionSound(second) /\ second.boot = first.boot
    <2> HIDE DEF first, waiting
    <2> QED
      BY <1>3, <1>4, ConsumeSound
  <1>6. Filled(second, out)
    <2> HIDE DEF second
    <2> QED
      BY <1>5, FillTxSound
  <1>7. /\ ses' = out.session /\ set' = ConsumedBySet(waiting, msg)
        /\ held' = None /\ ring' = <<ring[2], out.frame>>
    BY DEF Retire
  <1>8. SetSound(set')
    <2> HIDE DEF waiting
    <2> QED
      BY <1>4, <1>7, ConsumedBySetSound
  <1> HIDE DEF out, second, first, up, waiting
  <1> QED
    BY <1>2, <1>3, <1>5, <1>6, <1>7, <1>8, NoFrames DEF Filled

\* What a slot does to the banks, in time or not.
LEMMA SlotMcu ==
  ASSUME IInv, Slot
  PROVE  /\ SessionSound(ses') /\ ses'.boot = ses.boot /\ SetSound(set')
         /\ held' \in Messages \cup {None} /\ late' \in BOOLEAN
         /\ ring' \in (Frames \cup {Idle}) \X (Frames \cup {Idle})
         /\ FrameSound(ring[1])' /\ FrameSound(ring[2])'
  <1>1. /\ SessionSound(ses) /\ SetSound(set) /\ held \in Messages \cup {None} /\ late \in BOOLEAN
        /\ ring \in (Frames \cup {Idle}) \X (Frames \cup {Idle})
        /\ FrameSound(ring[1]) /\ FrameSound(ring[2])
    BY DEF IInv, McuTyped, FramesSound
  <1>2. ASSUME NEW cut \in BOOLEAN, SlotOnTime(cut)
        PROVE  /\ SessionSound(ses') /\ ses'.boot = ses.boot /\ SetSound(set')
               /\ held' \in Messages \cup {None} /\ late' \in BOOLEAN
               /\ ring' \in (Frames \cup {Idle}) \X (Frames \cup {Idle})
               /\ FrameSound(ring[1])' /\ FrameSound(ring[2])'
    <2>1. Received(cut) \in Messages \cup {None}
      BY DEF IInv, PlaneTyped, Received
    <2>2. Retire(Received(cut)) /\ late' = FALSE
      BY <1>2 DEF SlotOnTime
    <2>3. /\ SessionSound(ses') /\ ses'.boot = ses.boot /\ SetSound(set') /\ held' = None
          /\ \E f : /\ ring' = <<ring[2], f>> /\ f \in Frames \cup {Idle}
                    /\ f \in Frames => f.boot = ses.boot /\ (f.type = "MAP_BEGIN" => f.arg = EntryCount)
      BY <2>1, <2>2, RetireSound
    <2>4. PICK f : /\ ring' = <<ring[2], f>> /\ f \in Frames \cup {Idle}
                   /\ f \in Frames => f.boot = ses.boot /\ (f.type = "MAP_BEGIN" => f.arg = EntryCount)
      BY <2>3
    <2>5. ring'[1] = ring[2] /\ ring'[2] = f /\ ring' \in (Frames \cup {Idle}) \X (Frames \cup {Idle})
      BY <1>1, <2>4
    <2>6. FrameSound(ring[1])' /\ FrameSound(ring[2])'
      BY <1>1, <2>3, <2>4, <2>5 DEF FrameSound
    <2> QED
      BY <2>2, <2>3, <2>5, <2>6
  <1>3. ASSUME Rotate, late' \in BOOLEAN
        PROVE  /\ SessionSound(ses') /\ ses'.boot = ses.boot /\ SetSound(set')
               /\ held' \in Messages \cup {None} /\ late' \in BOOLEAN
               /\ ring' \in (Frames \cup {Idle}) \X (Frames \cup {Idle})
               /\ FrameSound(ring[1])' /\ FrameSound(ring[2])'
    BY <1>1, <1>3 DEF Rotate, FrameSound
  <1>4. \/ SlotOnTime(FALSE) \/ SlotOnTime(TRUE)
        \/ Rotate /\ late' \in BOOLEAN
    BY DEF Slot, SlotLate, SlotStalled
  <1> QED
    BY <1>2, <1>3, <1>4

\* A slot keeps IInv.
LEMMA SlotInv ==
  ASSUME IInv, Slot
  PROVE  IInv'
  <1>1. /\ tx' = None /\ link = "up"
        /\ UNCHANGED <<link_ready, deviceVars, staged, last_rx, store, status, export,
                       export_pending, monitor, link, snap, requests>>
    BY DEF Slot, Fault, NoFault, SlotLate, SlotStalled
  <1>2. rx' = rx \/ (rx' = ring[1] /\ ring[1] \in Frames /\ ~invalidate)
    <2>1. rx' = rx \/ Published(ring[1])
      BY DEF Slot
    <2>2. ring[1] \in Frames \cup {Idle} /\ Idle.type = "IDLE"
      BY DEF IInv, McuTyped, Idle, Frame
    <2> QED
      BY <2>1, <2>2 DEF Published
  <1>3. McuTyped'
    BY <1>1, SlotMcu DEF IInv, McuTyped
  <1>4. PlaneTyped'
    BY <1>1, <1>2 DEF IInv, PlaneTyped, deviceVars
  <1>5. Forgotten'
    BY <1>1, <1>2 DEF IInv, Forgotten, invalidate, deviceVars
  <1>6. FramesSound'
    BY <1>1, <1>2, SlotMcu DEF IInv, FramesSound, FrameSound
  <1>7. ReceivingSound' /\ BankSound'
    BY <1>1, SlotMcu, StoreRests DEF deviceVars
  <1> QED
    BY <1>3, <1>4, <1>5, <1>6, <1>7 DEF IInv

-----------------------------------------------------------------------------
\* The link starts in IInv.
THEOREM InitIInv == Init => IInv
  <1> SUFFICES ASSUME Init PROVE IInv
    OBVIOUS
  <1>1. SessionInit(0) \in Sessions
    <2>1. {} \in SUBSET Nat /\ 0 \in Generations \cup {0}
      OBVIOUS
    <2> QED
      BY <2>1, SessionValues, Zenon DEF SessionInit, Sessions
  <1>2. SessionSound(ses)
    BY <1>1 DEF Init, SessionInit, SessionSound, Uploading, Sending
  <1>3. SetSound(set)
    <2>1. <<>> \in Seq(Nat) /\ {} \in SUBSET Nat /\ DOMAIN <<>> = {}
      OBVIOUS
    <2>2. EmptySet \in [desc : Generations \cup {0}, slots : Seq(Nat), dirty : SUBSET Nat]
      BY <2>1, Zenon DEF EmptySet
    <2>3. EmptySet.slots = <<>> /\ EmptySet.dirty = {}
      BY DEF EmptySet
    <2> QED
      BY <2>1, <2>2, <2>3 DEF SetSound, Init
  <1>4. McuTyped
    BY <1>2, <1>3 DEF McuTyped, Init, IdleRing
  <1>5. 1 \in Generations
    BY PlaneAssumption DEF Generations
  <1>6. export \in [desc : Generations, next : Nat] /\ export.next = 0 /\ export.desc = 1
    BY <1>5 DEF Init, PlaneInit
  <1>7. export.next \in 0..Len(Devices[export.desc])
    BY <1>5, <1>6, PlaneAssumption DEF Generations
  <1>8. PlaneTyped
    <2>1. last_rx \in 1..SeqModulus
      BY WireAssumption DEF Init, PlaneInit, NoSequence
    <2>2. store \in Stores
      BY StoreValues DEF Init, PlaneInit
    <2> QED
      BY <1>5, <1>6, <1>7, <2>1, <2>2 DEF PlaneTyped, Init, PlaneInit
  <1>9. store.state = "IDLE" /\ store.latched = FALSE /\ store.bank.valid = FALSE
        /\ store.bank.entries = <<>>
    BY DEF Init, PlaneInit, StoreInit, NoBank
  <1>10. Forgotten
    BY <1>9 DEF Forgotten, Init, PlaneInit, IdleRing
  <1>11. FramesSound
    BY NoFrames DEF FramesSound, FrameSound, Init, PlaneInit, IdleRing
  <1>12. ReceivingSound /\ BankSound
    BY <1>9 DEF ReceivingSound, BankSound
  <1> QED
    BY <1>4, <1>8, <1>10, <1>11, <1>12 DEF IInv

\* Every step keeps IInv.
THEOREM NextIInv == IInv /\ [Next]_vars => IInv'
  <1> SUFFICES ASSUME IInv, [Next]_vars PROVE IInv'
    OBVIOUS
  <1>1. CASE Slot
    BY <1>1, SlotInv
  <1>2. CASE PlaneWork /\ McuUnchanged
    <2>1. UNCHANGED <<mcuVars, requests>>
      BY <1>2 DEF McuUnchanged, historyVars
    <2>2. CASE Stage
      BY <2>1, <2>2, StageInv
    <2>3. CASE Accept
      BY <2>1, <2>3, LeavesInv DEF Accept
    <2>4. CASE Validate
      BY <2>1, <2>4, ValidateInv
    <2>5. CASE ExportStart \/ Fill
      BY <2>1, <2>5, SourcesInv
    <2> QED
      BY <1>2, <2>2, <2>3, <2>4, <2>5 DEF PlaneWork
  <1>3. CASE EngineCommits \/ (CommandLeaves /\ McuUnchanged)
    <2>1. CommandLeaves /\ UNCHANGED <<mcuVars, requests>>
      BY <1>3 DEF EngineCommits, McuUnchanged, historyVars
    <2>2. /\ staged # None /\ FrameLeaves /\ store' = store
          /\ UNCHANGED <<link_ready, deviceVars, rx, txVars>>
      BY <2>1 DEF CommandLeaves, CommandWaits
    <2> QED
      BY <2>1, <2>2, LeavesInv
  <1>4. CASE Device
    BY <1>4, DeviceInv
  <1>5. CASE \E i \in Interfaces(generation) : Report(i) /\ McuUnchanged
    BY <1>5, SourcesInv DEF McuUnchanged, historyVars
  <1>6. CASE Service
    BY <1>6, ServiceInv
  <1>7. CASE Offer
    BY <1>7, OfferInv
  <1>8. CASE \E kind \in Kinds : Request(kind)
    BY <1>8, RequestInv
  <1>9. CASE ReadyLow
    BY <1>9, ReadyLowInv
  <1>10. CASE SlotLow
    BY <1>10, SlotLowInv
  <1>11. CASE RequestsOff
    BY <1>11, RequestsOffInv
  <1>12. CASE ReadyHigh
    BY <1>12, ReadyHighInv
  <1>13. CASE Reset
    BY <1>13, ResetInv
  <1>14. CASE UNCHANGED vars
    BY <1>14, SessionStep DEF IInv, McuTyped, vars, mcuVars, historyVars
  <1> QED
    BY <1>1, <1>2, <1>3, <1>4, <1>5, <1>6, <1>7, <1>8, <1>9, <1>10, <1>11, <1>12, <1>13, <1>14
    DEF Next

\* IInv is an invariant of the link: types, and whose upload it is that every
\* part of the plane holds.
THEOREM LinkInvariant == Spec => []IInv
  BY InitIInv, NextIInv, PTL DEF Spec

\* A map that is active is one upload of one run of the firmware, complete, in
\* order and of the device attached (injection_map.py: commit, CHECK_ENTRY,
\* invalidate), whatever is lost, repeated or restarted on either side.
THEOREM OneUpload == Spec => []ActiveMapOfOneUpload
  <1>1. IInv => ActiveMapOfOneUpload
    <2> SUFFICES ASSUME IInv, active_valid(store, generation)
                 PROVE  /\ DOMAIN store.bank.entries = 1..EntryCount
                        /\ \A i \in 1..EntryCount :
                             /\ store.bank.entries[i].arg = i - 1
                             /\ store.bank.entries[i].map = store.bank.map
                             /\ store.bank.entries[i].desc = generation
                             /\ store.bank.entries[i].boot = store.bank.entries[1].boot
      BY DEF ActiveMapOfOneUpload
    <2>1. store.bank.valid /\ store.bank.desc = generation
      BY DEF active_valid
    <2>2. store.bank.entries \in Seq(Frames) /\ EntryCount \in Nat \ {0}
      BY SessionAssumption DEF IInv, PlaneTyped, Stores, Banks
    <2>3. DOMAIN store.bank.entries = 1..EntryCount /\ 1 \in 1..EntryCount
      BY <2>1, <2>2 DEF IInv, BankSound
    <2> QED
      BY <2>1, <2>2, <2>3 DEF IInv, BankSound
  <1> QED
    BY <1>1, LinkInvariant, PTL

-----------------------------------------------------------------------------
(***************************************************************************)
(* The injection link implements InjectionService: a command is committed  *)
(* under the upload it cites, for the device attached, in the order of the *)
(* requests and once.                                                      *)
(*                                                                         *)
(* A run of the firmware numbers its uploads with MapModulus - 1 values;   *)
(* when they start again an upload may have the name of an earlier one.    *)
(* NoWrap says that a run has not come that far.                           *)
(***************************************************************************)

NoWrap == ses.map < MapModulus - 1

InFlight ==
  ({rx, ring[1], ring[2]} \cup (IF staged = None THEN {} ELSE {staged.frame})) \ {None, Idle}

\* What is received, and what the bank holds, is of this run of the firmware.
ReceivingOurs ==
  /\ store.state # "IDLE"
  /\ store.state = "RECEIVE" \/ (store.entries # <<>> /\ store.entries[1].boot = ses.boot)
BankOurs == store.bank.entries # <<>> /\ store.bank.entries[1].boot = ses.boot

\* No run is later than the present one.
Runs ==
  /\ store.entries # <<>> => store.entries[1].boot <= ses.boot
  /\ store.bank.entries # <<>> => store.bank.entries[1].boot <= ses.boot

\* Nothing is of a later device than the one attached.
Bounded ==
  /\ ses.desc <= generation /\ export.desc <= generation
  /\ \A f \in InFlight : f.desc <= generation
  /\ store.state # "IDLE" => store.begin.desc <= generation
  /\ \A m \in {tx, held} : m.type = "DESCRIPTOR" => m.desc <= generation

\* Nothing is of a device that is not enumerated yet.
Unheard ==
  ~session /\ ~failed =>
    /\ ses.desc # generation /\ (export.next # 0 => export.desc # generation)
    /\ \A f \in InFlight : f.desc # generation
    /\ \A m \in {tx, held} : m.type = "DESCRIPTOR" => m.desc # generation

\* The map status and the monitor hold messages of their own.
Kept ==
  /\ status # None => status.type \in {"ACCEPTED", "REJECTED"}
  /\ monitor # None => monitor.type = "REPORT"

\* Frames, the map received and the bank are of uploads made so far, and the
\* commands of requests older than the one that waits.
Older(n) == n \in 1..requests /\ (ses.req # NoRequest => n < ses.req.id)
Past ==
  /\ ses.phase # "SEND_BEGIN"
  /\ \A f \in InFlight : f.map <= ses.map /\ (is_command(f) => Older(f.arg))
  /\ ses.req # NoRequest => ses.req.id \in 1..requests
  /\ acted \in Seq([request : Nat, upload : [map : Nat, desc : Nat, boot : Nat]])
  /\ \A i \in DOMAIN acted : Older(acted[i].request)
  /\ ReceivingOurs => store.begin.map <= ses.map
  /\ BankOurs => store.bank.map <= ses.map

\* An upload's generation names one device.
NamedBy(D) ==
  /\ \A f \in InFlight : D[f.map] = f.desc
  /\ ses.phase \in Uploading => D[ses.map] = ses.desc
  /\ ReceivingOurs => store.begin.map \in DOMAIN D /\ D[store.begin.map] = store.begin.desc
  /\ BankOurs => store.bank.map \in DOMAIN D /\ D[store.bank.map] = store.bank.desc
Named == \E D \in [1..(MapModulus - 1) -> Generations] : NamedBy(D)

\* A later request, or a later upload.
After(a, b) ==
  /\ is_command(a) /\ is_command(b) => a.arg < b.arg
  /\ a.type = "MAP_BEGIN" /\ b.type = "MAP_BEGIN" => a.map < b.map

\* The banks in the order they were filled; the later frame has the number
\* last given.
Ra == IF late THEN ring[2] ELSE ring[1]
Rb == IF late THEN ring[1] ELSE ring[2]
Following(n) == IF n + 1 = SeqModulus THEN 1 ELSE n + 1
Emitted ==
  link = "up" =>
    /\ Rb # Idle => Rb.seq = ses.seq
    /\ Ra # Idle /\ Rb = Idle => Ra.seq = ses.seq
    /\ Ra # Idle /\ Rb # Idle => After(Ra, Rb) /\ Rb.seq = Following(Ra.seq)

\* A frame is stale, or a duplicate, to a plane that has seen the number n.
Blocked(n, f) == n # NoSequence /\ (f.seq - n) % SeqModulus \notin 1..(SeqModulus \div 2 - 1)

\* The number the plane has seen when the staged frame, and then rx, is gone.
Seen1 == IF staged # None /\ staged.allowed THEN staged.frame.seq ELSE last_rx
Seen2 == IF rx # None /\ ~Blocked(Seen1, rx) THEN rx.seq ELSE Seen1

\* A frame is newer than what the plane has done, and than what it holds.
Newer(f) ==
  /\ is_command(f) => \A i \in DOMAIN acted : acted[i].request < f.arg
  /\ f.type = "MAP_BEGIN" =>
       /\ ReceivingOurs /\ store.begin.desc = generation => store.begin.map < f.map
       /\ BankOurs /\ store.bank.desc = generation => store.bank.map < f.map
AfterStaged(f) == staged # None /\ staged.allowed => After(staged.frame, f)
AfterRx(f) == rx # None /\ ~Blocked(Seen1, rx) => After(rx, f)
NewerThanAll(f) == Newer(f) /\ AfterStaged(f) /\ AfterRx(f)

Old(f) == f.desc # generation

\* What gets past the sequence check is new, or of a device that is gone.
Ordered ==
  link = "up" /\ session =>
    /\ staged # None /\ staged.allowed => Old(staged.frame) \/ Newer(staged.frame)
    /\ rx # None => Old(rx) \/ Blocked(Seen1, rx) \/ (Newer(rx) /\ AfterStaged(rx))
    /\ \A f \in {Ra, Rb} \ {Idle} : Old(f) \/ Blocked(Seen2, f) \/ NewerThanAll(f)
    /\ Ra # Idle /\ Rb # Idle => Old(Rb) \/ Blocked(Seen2, Ra) \/ NewerThanAll(Rb)

\* The map received replaces an older one.
Replaces ==
  ReceivingOurs /\ store.begin.desc = generation /\ BankOurs /\ store.bank.desc = generation =>
    store.bank.map < store.begin.map

SInv ==
  /\ IInv
  /\ Runs /\ Bounded /\ Unheard /\ Kept /\ Past /\ Named
  /\ Emitted /\ Ordered /\ Replaces

-----------------------------------------------------------------------------
\* The store forgets; frames leave; the session moves within its upload or
\* gives it up.
StoreFades ==
  /\ ReceivingOurs' => /\ ReceivingOurs /\ store'.begin.map = store.begin.map
                       /\ store'.begin.desc = store.begin.desc
  /\ BankOurs' => /\ BankOurs /\ store'.bank.map = store.bank.map
                  /\ store'.bank.desc = store.bank.desc
SessionFades ==
  /\ ses'.boot = ses.boot /\ ses'.map = ses.map /\ ses'.phase # "SEND_BEGIN"
  /\ ses'.phase \in Uploading => ses.phase \in Uploading /\ ses'.desc = ses.desc
  /\ ses'.req \in {ses.req, NoRequest}

\* What fades is still of the past.
LEMMA PastFades ==
  ASSUME Past, StoreFades, SessionFades, InFlight' \subseteq InFlight, UNCHANGED <<requests, acted>>
  PROVE  Past'
  BY DEF Past, StoreFades, SessionFades, Older, is_command

\* What fades is still named.
LEMMA NamedFades ==
  ASSUME Named, StoreFades, SessionFades, InFlight' \subseteq InFlight
  PROVE  Named'
  <1>1. PICK D \in [1..(MapModulus - 1) -> Generations] : NamedBy(D)
    BY DEF Named
  <1>2. NamedBy(D)'
    BY <1>1 DEF NamedBy, StoreFades, SessionFades
  <1> QED
    BY <1>2 DEF Named

\* What fades still replaces nothing newer.
LEMMA ReplacesFades ==
  ASSUME Replaces, StoreFades, generation' = generation
  PROVE  Replaces'
  BY DEF Replaces, StoreFades

\* The store is left alone, in one run of the firmware.
LEMMA StoreStays ==
  ASSUME store' = store, ses'.boot = ses.boot
  PROVE  ReceivingOurs' = ReceivingOurs /\ BankOurs' = BankOurs /\ StoreFades /\ (Runs => Runs')
  BY DEF ReceivingOurs, BankOurs, StoreFades, Runs

\* Nothing the order is about moves.
LEMMA OrderedStays ==
  ASSUME Ordered, ses'.boot = ses.boot,
         UNCHANGED <<link, session, generation, staged, rx, ring, late, last_rx, store, acted>>
  PROVE  Ordered'
  <1>1. ReceivingOurs' = ReceivingOurs /\ BankOurs' = BankOurs
    BY StoreStays
  <1>2. \A f : Newer(f)' <=> Newer(f)
    BY <1>1 DEF Newer, is_command
  <1>3. Seen1' = Seen1
    BY DEF Seen1
  <1>4. Seen2' = Seen2
    BY <1>3 DEF Seen2, Blocked, NoSequence
  <1>5. \A f : NewerThanAll(f)' <=> NewerThanAll(f)
    BY <1>2, <1>3 DEF NewerThanAll, AfterStaged, AfterRx, After, Blocked, is_command, NoSequence
  <1>6. Ra' = Ra /\ Rb' = Rb
    BY DEF Ra, Rb
  <1> QED
    BY <1>2, <1>3, <1>4, <1>5, <1>6 DEF Ordered, AfterStaged, After, Blocked, Old, is_command, NoSequence

\* What the MCU does without the link, requests apart.
LEMMA SessionStepS ==
  ASSUME SInv, IInv', SessionFades, ses'.desc = ses.desc, ses'.seq = ses.seq \/ link # "up",
         UNCHANGED <<planeVars, link, ring, late, held, acted, requests>>
  PROVE  SInv'
  <1>1. ses'.boot = ses.boot /\ InFlight' = InFlight
    BY DEF SessionFades, InFlight, planeVars
  <1>2. ReceivingOurs' = ReceivingOurs /\ BankOurs' = BankOurs /\ StoreFades /\ Runs'
    BY <1>1, StoreStays DEF SInv, planeVars
  <1>3. Past' /\ Named' /\ Replaces'
    BY <1>1, <1>2, PastFades, NamedFades, ReplacesFades DEF SInv, planeVars
  <1>4. Bounded' /\ Unheard' /\ Kept'
    BY <1>1 DEF SInv, Bounded, Unheard, Kept, planeVars
  <1>5. Emitted'
    BY DEF SInv, Emitted, Ra, Rb, After, Following, is_command, planeVars
  <1>6. Ordered'
    BY <1>1, OrderedStays DEF SInv, planeVars
  <1> QED
    BY <1>2, <1>3, <1>4, <1>5, <1>6 DEF SInv

\* link_descriptor_service keeps SInv.
LEMMA ServiceS ==
  ASSUME SInv, Service
  PROVE  SInv'
  <1>1. IInv'
    BY ServiceInv DEF SInv
  <1>2. ses \in Sessions /\ ses.phase # "SEND_BEGIN"
    BY DEF SInv, IInv, McuTyped, SessionSound, Past
  <1>3. /\ ses'.boot = ses.boot /\ ses'.map = ses.map /\ ses'.phase = ses.phase
        /\ ses'.desc = ses.desc /\ ses'.req = ses.req /\ ses'.seq = ses.seq
    BY <1>2 DEF Service, Reconciled, SyncDescriptors, Sessions
  <1>4. SessionFades
    BY <1>2, <1>3 DEF SessionFades
  <1> QED
    BY <1>1, <1>3, <1>4, SessionStepS DEF Service, historyVars

\* The verdict on a snapshot keeps SInv.
LEMMA OfferS ==
  ASSUME SInv, Offer
  PROVE  SInv'
  <1>1. IInv'
    BY OfferInv DEF SInv
  <1>2. ses \in Sessions /\ ses.phase # "SEND_BEGIN"
    BY DEF SInv, IInv, McuTyped, SessionSound, Past
  <1>3. ASSUME NEW g, NEW slot, NEW i, NEW class
        PROVE  LET t == OfferLayout(ses, g, slot, i, class)
               IN  /\ t.boot = ses.boot /\ t.map = ses.map /\ t.phase \in {ses.phase, "WAIT_REPORT"}
                   /\ t.desc = ses.desc /\ t.req = ses.req /\ t.seq = ses.seq
    <2> DEFINE judged == [ses EXCEPT !.judged = @ \union {slot}]
               phase == IF judged.phase \in {"WAIT_DESCRIPTOR", "NO_MOUSE"}
                        THEN "WAIT_REPORT" ELSE judged.phase
               adopted == [judged EXCEPT !.layout = [class |-> class, interface |-> i],
                             !.phase = phase]
    <2>1. /\ judged.phase = ses.phase /\ judged.boot = ses.boot /\ judged.map = ses.map
          /\ judged.desc = ses.desc /\ judged.req = ses.req /\ judged.seq = ses.seq
      BY <1>2 DEF Sessions
    <2>2. /\ adopted.phase = phase /\ adopted.boot = ses.boot /\ adopted.map = ses.map
          /\ adopted.desc = ses.desc /\ adopted.req = ses.req /\ adopted.seq = ses.seq
      BY <1>2 DEF Sessions
    <2>3. phase \in {ses.phase, "WAIT_REPORT"}
      BY <2>1
    <2>4. OfferLayout(ses, g, slot, i, class) \in {ses, judged, adopted}
      BY DEF OfferLayout
    <2> HIDE DEF judged, adopted, phase
    <2> QED
      BY <2>1, <2>2, <2>3, <2>4
  <1>4. /\ ses'.boot = ses.boot /\ ses'.map = ses.map /\ ses'.phase \in {ses.phase, "WAIT_REPORT"}
        /\ ses'.desc = ses.desc /\ ses'.req = ses.req /\ ses'.seq = ses.seq
    BY <1>3 DEF Offer
  <1>5. SessionFades
    BY <1>2, <1>4 DEF SessionFades, Uploading, Sending
  <1> QED
    BY <1>1, <1>4, <1>5, SessionStepS DEF Offer, historyVars

\* set_link(false): the request goes, and the upload with it.
LEMMA SetLinkDown ==
  ASSUME NEW s \in Sessions
  PROVE  /\ SetLink(s, FALSE).boot = s.boot /\ SetLink(s, FALSE).map = s.map
         /\ SetLink(s, FALSE).phase = "WAIT_LINK" /\ SetLink(s, FALSE).desc = s.desc
         /\ SetLink(s, FALSE).req = NoRequest
  BY DEF SetLink, Sessions

\* A slot that completes with mcu_ready low keeps SInv.
LEMMA SlotLowS ==
  ASSUME SInv, SlotLow
  PROVE  SInv'
  <1>1. IInv'
    BY SlotLowInv DEF SInv
  <1>2. ses \in Sessions
    BY DEF SInv, IInv, McuTyped, SessionSound
  <1>3. /\ ses'.boot = ses.boot /\ ses'.map = ses.map /\ ses'.phase = "WAIT_LINK"
        /\ ses'.desc = ses.desc /\ ses'.req = NoRequest
    BY <1>2, SetLinkDown DEF SlotLow
  <1>4. SessionFades
    BY <1>3 DEF SessionFades, Uploading, Sending
  <1> QED
    BY <1>1, <1>3, <1>4, SessionStepS DEF SlotLow

\* A request keeps SInv: its number is the last.
LEMMA RequestS ==
  ASSUME SInv, NEW kind \in Kinds, Request(kind)
  PROVE  SInv'
  <1>1. IInv'
    BY RequestInv DEF SInv
  <1>2. ses \in Sessions /\ requests \in Nat /\ ses.phase # "SEND_BEGIN"
    BY DEF SInv, IInv, McuTyped, SessionSound, Past
  <1>3. /\ ses'.boot = ses.boot /\ ses'.map = ses.map /\ ses'.phase = ses.phase /\ ses'.seq = ses.seq
        /\ ses'.desc = ses.desc /\ ses'.req.id = requests + 1 /\ ses.req = NoRequest
        /\ requests' = requests + 1
    BY <1>2 DEF Request, RequestAccepted, Sessions
  <1>4. UNCHANGED <<planeVars, link, ring, late, held, acted>>
    BY DEF Request
  <1>5. InFlight' = InFlight
    BY <1>4 DEF InFlight, planeVars
  <1>6. ReceivingOurs' = ReceivingOurs /\ BankOurs' = BankOurs /\ StoreFades /\ Runs'
    BY <1>3, <1>4, StoreStays DEF SInv, planeVars
  <1>7. Past'
    BY <1>2, <1>3, <1>4, <1>5, <1>6, SMTT(30) DEF SInv, Past, Older, is_command, planeVars
  <1>8. Named'
    <2>1. PICK D \in [1..(MapModulus - 1) -> Generations] : NamedBy(D)
      BY DEF SInv, Named
    <2>2. NamedBy(D)'
      BY <1>3, <1>4, <1>5, <1>6, <2>1 DEF NamedBy, planeVars
    <2> QED
      BY <2>2 DEF Named
  <1>9. Replaces'
    BY <1>4, <1>6, ReplacesFades DEF SInv, planeVars
  <1>10. Bounded' /\ Unheard' /\ Kept'
    BY <1>3, <1>4, <1>5 DEF SInv, Bounded, Unheard, Kept, planeVars
  <1>11. Emitted'
    BY <1>3, <1>4 DEF SInv, Emitted, Ra, Rb, After, Following, is_command, planeVars
  <1>12. Ordered'
    BY <1>3, <1>4, OrderedStays DEF SInv, planeVars
  <1> QED
    BY <1>1, <1>6, <1>7, <1>8, <1>9, <1>10, <1>11, <1>12 DEF SInv

-----------------------------------------------------------------------------
\* The transmit side of the plane.
LEMMA TransmitS ==
  ASSUME SInv, IInv', Bounded', Unheard', Kept',
         UNCHANGED <<link_ready, deviceVars, rxVars, mcuVars, requests, acted>>
  PROVE  SInv'
  <1>1. ses' = ses /\ InFlight' = InFlight /\ store' = store /\ generation' = generation
    BY DEF InFlight, mcuVars, rxVars, deviceVars
  <1>2. ReceivingOurs' = ReceivingOurs /\ BankOurs' = BankOurs /\ StoreFades /\ Runs'
    BY <1>1, StoreStays DEF SInv
  <1>3. SessionFades
    BY <1>1 DEF SInv, Past, SessionFades
  <1>4. Past' /\ Named' /\ Replaces'
    BY <1>1, <1>2, <1>3, PastFades, NamedFades, ReplacesFades DEF SInv
  <1>5. Emitted'
    BY DEF SInv, Emitted, Ra, Rb, After, Following, is_command, mcuVars
  <1>6. Ordered'
    BY <1>1, OrderedStays DEF SInv, mcuVars, rxVars, deviceVars
  <1> QED
    BY <1>2, <1>4, <1>5, <1>6 DEF SInv

\* The plane's sources of messages keep SInv.
LEMMA SourcesS ==
  ASSUME SInv, ExportStart \/ Fill \/ (\E i \in Interfaces(generation) : Report(i)),
         UNCHANGED <<mcuVars, requests, acted>>
  PROVE  SInv'
  <1>1. IInv'
    BY SourcesInv DEF SInv
  <1>2. generation \in Nat /\ None.type # "DESCRIPTOR" /\ export \in [desc : Generations, next : Nat]
    BY PlaneAssumption DEF SInv, IInv, PlaneTyped, Generations, None
  <1>3. /\ UNCHANGED <<link_ready, deviceVars, rxVars, mcuVars, requests, acted>>
        /\ UNCHANGED <<session, failed, generation, held, ses>> /\ InFlight' = InFlight
    BY DEF ExportStart, Fill, Report, InFlight, deviceVars, rxVars, mcuVars
  <1>4. CASE ExportStart
    <2>1. /\ export'.desc = generation /\ UNCHANGED <<status, monitor, tx, store>> /\ session
      BY <1>4 DEF ExportStart, invalidate, rxVars
    <2>2. Bounded' /\ Unheard' /\ Kept'
      BY <1>2, <1>3, <2>1 DEF SInv, Bounded, Unheard, Kept
    <2> QED
      BY <1>1, <1>3, <2>2, TransmitS
  <1>5. CASE Fill
    <2>1. store' = store
      BY <1>3 DEF rxVars
    <2>2. CASE FillStatus \/ FillReport
      <3>1. tx'.type # "DESCRIPTOR" /\ export' = export
        BY <1>2, <2>2 DEF SInv, Kept, FillStatus, FillReport
      <3>2. Kept'
        BY <2>2 DEF SInv, Kept, FillStatus, FillReport
      <3>3. Bounded' /\ Unheard'
        BY <1>3, <2>1, <3>1 DEF SInv, Bounded, Unheard
      <3> QED
        BY <1>1, <1>3, <3>2, <3>3, TransmitS
    <2>3. CASE FillDescriptor
      <3>1. tx'.desc = export.desc /\ export'.desc = export.desc /\ export.next # 0
        BY <1>2, <2>3 DEF FillDescriptor, Message
      <3>2. Kept'
        BY <2>3 DEF SInv, Kept, FillDescriptor
      <3>3. Bounded' /\ Unheard'
        BY <1>3, <2>1, <3>1 DEF SInv, Bounded, Unheard
      <3> QED
        BY <1>1, <1>3, <3>2, <3>3, TransmitS
    <2> QED
      BY <1>5, <2>2, <2>3 DEF Fill
  <1>6. ASSUME NEW i \in Interfaces(generation), Report(i)
        PROVE  SInv'
    <2>1. monitor'.type = "REPORT" /\ UNCHANGED <<status, export, tx, store>>
      BY <1>6 DEF Report, Message, rxVars
    <2>2. Bounded' /\ Unheard' /\ Kept'
      BY <1>3, <2>1 DEF SInv, Bounded, Unheard, Kept
    <2> QED
      BY <1>1, <1>3, <2>2, TransmitS
  <1> QED
    BY <1>4, <1>5, <1>6

-----------------------------------------------------------------------------
\* The rest of the recovery keeps SInv.
LEMMA RequestsOffS ==
  ASSUME SInv, RequestsOff
  PROVE  SInv'
  <1>1. IInv'
    BY RequestsOffInv DEF SInv
  <1>2. UNCHANGED <<planeVars, held, ses, historyVars>> /\ link' = "off" /\ ring' = IdleRing
    BY DEF RequestsOff
  <1>3. InFlight' \subseteq InFlight
    BY <1>2 DEF InFlight, IdleRing, planeVars
  <1>4. SessionFades /\ StoreFades /\ Runs'
    BY <1>2, StoreStays DEF SInv, Past, SessionFades, planeVars
  <1>5. Past' /\ Named' /\ Replaces'
    BY <1>2, <1>3, <1>4, PastFades, NamedFades, ReplacesFades DEF SInv, planeVars, historyVars
  <1>6. Bounded' /\ Unheard' /\ Kept'
    BY <1>2, <1>3 DEF SInv, Bounded, Unheard, Kept, planeVars
  <1>7. Emitted' /\ Ordered'
    BY <1>2 DEF Emitted, Ordered
  <1> QED
    BY <1>1, <1>4, <1>5, <1>6, <1>7 DEF SInv

\* The rise of mcu_ready keeps SInv: nothing is in flight.
LEMMA ReadyHighS ==
  ASSUME SInv, ReadyHigh
  PROVE  SInv'
  <1>1. IInv'
    BY ReadyHighInv DEF SInv
  <1>2. /\ UNCHANGED <<ring, held, ses, requests, acted, store, rx, staged, last_rx, generation,
                       session, failed, status, export, monitor, tx>>
        /\ ring = IdleRing /\ rx = None /\ staged = None
    BY DEF SInv, IInv, Forgotten, invalidate, ReadyHigh, LinkRises, rxVars, deviceVars, historyVars
  <1>3. InFlight' = InFlight
    BY <1>2 DEF InFlight
  <1>4. SessionFades /\ StoreFades /\ Runs'
    BY <1>2, StoreStays DEF SInv, Past, SessionFades
  <1>5. Past' /\ Named' /\ Replaces'
    BY <1>2, <1>3, <1>4, PastFades, NamedFades, ReplacesFades DEF SInv
  <1>6. Bounded' /\ Unheard' /\ Kept'
    BY <1>2, <1>3 DEF SInv, Bounded, Unheard, Kept
  <1>7. Ra' = Idle /\ Rb' = Idle
    BY <1>2 DEF Ra, Rb, IdleRing
  <1>8. Emitted' /\ Ordered'
    BY <1>2, <1>7 DEF Emitted, Ordered
  <1> QED
    BY <1>1, <1>4, <1>5, <1>6, <1>8 DEF SInv

\* The link or the session falls.
LEMMA InvalidatedFades ==
  ASSUME SInv, Invalidated
  PROVE  /\ rx' = None /\ staged' = None
         /\ ses'.boot = ses.boot => StoreFades /\ Runs'
         /\ ses'.boot = ses.boot + 1 => ~ReceivingOurs' /\ ~BankOurs' /\ Runs'
         /\ store'.state # "IDLE" => store.state # "IDLE" /\ store'.begin.desc = store.begin.desc
  <1>1. store \in Stores /\ store' = StoreInvalidate(store) /\ rx' = None /\ staged' = None
    BY DEF SInv, IInv, PlaneTyped, Invalidated
  <1>2. /\ store' \in Stores /\ store'.state \in {"IDLE", "VALIDATE"}
        /\ store'.state = "VALIDATE" =>
             /\ store.state = "VALIDATE" /\ store'.begin = store.begin
             /\ store'.entries = store.entries
        /\ store'.bank.desc = store.bank.desc /\ store'.bank.map = store.bank.map
        /\ store'.bank.entries = store.bank.entries
    BY <1>1, InvalidateKeeps, StoreInvalidateType DEF Stores
  <1>3. store'.state = "IDLE" => store'.entries = <<>> \/ store'.entries = store.entries
    BY <1>1, InvalidateEntries
  <1>4. /\ ses.boot \in Nat
        /\ store.entries # <<>> => store.entries[1].boot \in Nat
        /\ store.bank.entries # <<>> => store.bank.entries[1].boot \in Nat
    <2>1. ASSUME NEW q \in Seq(Frames), q # <<>>
          PROVE  q[1].boot \in Nat
      <3>1. q[1] \in Frames
        BY <2>1
      <3> QED
        BY <3>1 DEF Frames
    <2>2. ses.boot \in Nat
      BY DEF SInv, IInv, McuTyped, SessionSound, Sessions
    <2> QED
      BY <1>1, <2>1, <2>2 DEF Stores, Banks
  <1>5. Runs' <=> /\ store'.entries # <<>> => store'.entries[1].boot <= ses'.boot
                  /\ store'.bank.entries # <<>> => store'.bank.entries[1].boot <= ses'.boot
    BY DEF Runs
  <1>6. ses'.boot = ses.boot => StoreFades
    BY <1>2 DEF StoreFades, ReceivingOurs, BankOurs
  <1>7. ses'.boot = ses.boot + 1 => ~ReceivingOurs' /\ ~BankOurs'
    BY <1>2, <1>4 DEF SInv, Runs, ReceivingOurs, BankOurs
  <1>8. ses'.boot \in {ses.boot, ses.boot + 1} => Runs'
    BY <1>2, <1>3, <1>4, <1>5 DEF SInv, Runs
  <1> QED
    BY <1>1, <1>2, <1>6, <1>7, <1>8

\* The fall of mcu_ready keeps SInv, whatever becomes of the slot on the wire.
LEMMA LinkFallsS ==
  ASSUME SInv, IInv', LinkFalls, link' # "up", SessionFades, ses'.desc = ses.desc,
         InFlight' \subseteq InFlight, UNCHANGED <<requests, acted>>,
         \A m \in {tx', held'} : m \in {tx, held, None}
  PROVE  SInv'
  <1>1. StoreFades /\ Runs'
        /\ (store'.state # "IDLE" => store.state # "IDLE" /\ store'.begin.desc = store.begin.desc)
    BY InvalidatedFades DEF LinkFalls, SessionFades
  <1>2. UNCHANGED <<generation, session, failed, status, export, monitor>>
    BY DEF LinkFalls, deviceVars
  <1>3. Past' /\ Named' /\ Replaces'
    BY <1>1, <1>2, PastFades, NamedFades, ReplacesFades DEF SInv
  <1>4. None.type # "DESCRIPTOR"
    BY DEF None
  <1>5. Bounded' /\ Unheard' /\ Kept'
    BY <1>1, <1>2, <1>4 DEF SInv, Bounded, Unheard, Kept
  <1>6. Emitted' /\ Ordered'
    BY DEF Emitted, Ordered
  <1> QED
    BY <1>1, <1>3, <1>5, <1>6 DEF SInv

\* MCU_READY_LOW keeps SInv.
LEMMA ReadyLowS ==
  ASSUME SInv, ReadyLow
  PROVE  SInv'
  <1>1. IInv'
    BY ReadyLowInv DEF SInv
  <1>2. /\ LinkFalls /\ Invalidated /\ link' = "low"
        /\ UNCHANGED <<ring, requests, acted>> /\ ses' \in {ses, SetLink(ses, FALSE)}
        /\ \A m \in {tx', held'} : m \in {tx, held, None}
    BY DEF ReadyLow, LinkFalls, Fault
  <1>3. ses \in Sessions /\ ses.phase # "SEND_BEGIN"
    BY DEF SInv, IInv, McuTyped, SessionSound, Past
  <1>4. ses' = SetLink(ses, FALSE) => SessionFades /\ ses'.desc = ses.desc
    <2> HAVE ses' = SetLink(ses, FALSE)
    <2>1. /\ ses'.boot = ses.boot /\ ses'.map = ses.map /\ ses'.phase = "WAIT_LINK"
          /\ ses'.desc = ses.desc /\ ses'.req = NoRequest
      BY <1>3, SetLinkDown
    <2> QED
      BY <2>1 DEF SessionFades, Uploading, Sending
  <1>5. SessionFades /\ ses'.desc = ses.desc
    BY <1>2, <1>3, <1>4 DEF SessionFades
  <1>6. InFlight' \subseteq InFlight
    BY <1>2, InvalidatedFades DEF InFlight
  <1> QED
    BY <1>1, <1>2, <1>5, <1>6, LinkFallsS

\* A reset keeps SInv: nothing the plane has is of the new run.
LEMMA ResetS ==
  ASSUME SInv, Reset
  PROVE  SInv'
  <1>1. IInv'
    BY ResetInv DEF SInv
  <1>2. /\ LinkFalls /\ Invalidated /\ link' = "off" /\ ring' = IdleRing /\ held' = None
        /\ UNCHANGED <<requests, acted>> /\ ses' = SessionInit(ses.boot + 1) /\ tx' \in {tx, None}
        /\ UNCHANGED <<generation, session, failed, status, export, monitor>>
    BY DEF Reset, LinkFalls, Fault, deviceVars
  <1>3. /\ ses'.boot = ses.boot + 1 /\ ses'.map = 0 /\ ses'.phase = "WAIT_LINK" /\ ses'.desc = 0
        /\ ses'.req = NoRequest
    BY <1>2 DEF SessionInit
  <1>4. InFlight' = {} /\ ~ReceivingOurs' /\ ~BankOurs' /\ Runs'
        /\ (store'.state # "IDLE" => store.state # "IDLE" /\ store'.begin.desc = store.begin.desc)
    BY <1>2, <1>3, InvalidatedFades DEF InFlight, IdleRing
  <1>5. Past'
    BY <1>2, <1>3, <1>4 DEF SInv, Past, Older
  <1>6. Named'
    BY <1>3, <1>4 DEF SInv, Named, NamedBy, Uploading, Sending
  <1>7. generation \in Nat \ {0} /\ None.type # "DESCRIPTOR"
    BY PlaneAssumption DEF SInv, IInv, PlaneTyped, Generations, None
  <1>8. Bounded' /\ Unheard' /\ Kept'
    BY <1>2, <1>3, <1>4, <1>7 DEF SInv, Bounded, Unheard, Kept
  <1>9. Emitted' /\ Ordered' /\ Replaces'
    BY <1>2, <1>4 DEF Emitted, Ordered, Replaces
  <1> QED
    BY <1>1, <1>4, <1>5, <1>6, <1>8, <1>9 DEF SInv

\* What the device does keeps SInv.
LEMMA DeviceS ==
  ASSUME SInv, Device
  PROVE  SInv'
  <1>1. IInv'
    BY DeviceInv DEF SInv
  <1>2. UNCHANGED <<mcuVars, requests, acted, link_ready, status, monitor, tx>>
    BY DEF Device, McuUnchanged, historyVars, PollFailure, Detach, Enumerated, Fault, txVars
  <1>3. ses' = ses /\ ring' = ring /\ held' = held /\ link' = link /\ late' = late
    BY <1>2 DEF mcuVars
  <1>4. SessionFades
    BY <1>3 DEF SInv, Past, SessionFades
  <1>5. Emitted'
    BY <1>3 DEF SInv, Emitted, Ra, Rb, After, Following, is_command
  <1>6. /\ generation \in Nat /\ ses.desc \in Nat /\ export.desc \in Nat
        /\ \A f \in InFlight : f.desc \in Nat
        /\ store.begin.desc \in Nat
        /\ \A m \in {tx, held} : m.type = "DESCRIPTOR" => m.desc \in Nat
    <2>1. Generations \subseteq Nat
      BY PlaneAssumption DEF Generations
    <2>2. InFlight \subseteq Frames
      BY DEF SInv, IInv, McuTyped, PlaneTyped, InFlight
    <2>3. generation \in Nat /\ ses.desc \in Nat /\ export.desc \in Nat
      BY <2>1 DEF SInv, IInv, McuTyped, PlaneTyped, SessionSound, Sessions
    <2>4. \A f \in InFlight : f.desc \in Nat
      BY <2>1, <2>2 DEF Frames
    <2>5. store.begin.desc \in Nat
      BY DEF SInv, IInv, PlaneTyped, Stores
    <2>6. \A m \in Messages \cup {None} : m.type = "DESCRIPTOR" => m.desc \in Nat
      <3>1. \A m \in Messages : m.desc \in Generations
        BY DEF Messages
      <3>2. None.type # "DESCRIPTOR"
        BY DEF None
      <3> QED
        BY <2>1, <3>1, <3>2
    <2>7. tx \in Messages \cup {None} /\ held \in Messages \cup {None}
      BY DEF SInv, IInv, McuTyped, PlaneTyped
    <2> QED
      BY <2>3, <2>4, <2>5, <2>6, <2>7
  <1>7. CASE Detach \/ PollFailure
    <2>1. Invalidated /\ session' = FALSE
      BY <1>7 DEF Detach, PollFailure
    <2>2. /\ StoreFades /\ Runs' /\ InFlight' \subseteq InFlight
          /\ (store'.state # "IDLE" => store.state # "IDLE" /\ store'.begin.desc = store.begin.desc)
      BY <1>3, <2>1, InvalidatedFades DEF InFlight
    <2>3. Past' /\ Named'
      BY <1>2, <1>4, <2>2, PastFades, NamedFades DEF SInv
    <2>4. Ordered'
      BY <2>1 DEF Ordered
    <2>5. CASE Detach
      <3>1. generation' = generation + 1 /\ export'.desc = export.desc
        BY <2>5 DEF SInv, IInv, PlaneTyped, Detach
      <3>2. Bounded' /\ Unheard' /\ Kept'
        BY <1>2, <1>3, <1>6, <2>2, <3>1 DEF SInv, Bounded, Unheard, Kept
      <3>3. Replaces'
        BY <1>6, <2>2, <3>1 DEF SInv, Bounded, Replaces, StoreFades, ReceivingOurs
      <3> QED
        BY <1>1, <1>5, <2>2, <2>3, <2>4, <3>2, <3>3 DEF SInv
    <2>6. CASE PollFailure
      <3>1. generation' = generation /\ export' = export /\ failed'
        BY <2>6 DEF PollFailure, txVars
      <3>2. Bounded' /\ Unheard' /\ Kept'
        BY <1>2, <1>3, <2>2, <3>1 DEF SInv, Bounded, Unheard, Kept
      <3>3. Replaces'
        BY <2>2, <3>1, ReplacesFades DEF SInv
      <3> QED
        BY <1>1, <1>5, <2>2, <2>3, <2>4, <3>2, <3>3 DEF SInv
    <2> QED
      BY <1>7, <2>5, <2>6
  <1>8. CASE Enumerated
    <2>1. /\ ~session /\ ~failed /\ session' = TRUE
          /\ UNCHANGED <<generation, rx, staged, last_rx, store, export>>
      BY <1>8 DEF Enumerated, rxVars
    <2>2. rx = None /\ staged = None
      BY <2>1 DEF SInv, IInv, Forgotten, invalidate
    <2>3. StoreFades /\ Runs' /\ InFlight' = InFlight
      BY <1>3, <2>1, StoreStays DEF SInv, InFlight
    <2>4. Past' /\ Named' /\ Replaces'
      BY <1>2, <1>4, <2>1, <2>3, PastFades, NamedFades, ReplacesFades DEF SInv
    <2>5. Bounded' /\ Unheard' /\ Kept'
      BY <1>2, <1>3, <2>1, <2>3 DEF SInv, Bounded, Unheard, Kept
    <2>6. \A f \in {Ra, Rb} \ {Idle} : Old(f)
      <3>1. Ra \in {ring[1], ring[2]} /\ Rb \in {ring[1], ring[2]}
        BY DEF Ra, Rb
      <3>2. None \notin {ring[1], ring[2]}
        BY NoFrames DEF SInv, IInv, McuTyped, Idle, Frame, None
      <3> QED
        BY <2>1, <3>1, <3>2 DEF SInv, Unheard, InFlight, Old
    <2>7. Ra' = Ra /\ Rb' = Rb
      BY <1>3 DEF Ra, Rb
    <2>8. Ordered'
      BY <2>1, <2>2, <2>6, <2>7 DEF Ordered, Old
    <2> QED
      BY <1>1, <1>5, <2>3, <2>4, <2>5, <2>8 DEF SInv
  <1> QED
    BY <1>7, <1>8 DEF Device

-----------------------------------------------------------------------------
\* A number the plane has seen does not come again, nor does the one before.
LEMMA BlockedAgain ==
  ASSUME NEW f \in Frames
  PROVE  Blocked(f.seq, f) /\ Blocked(Following(f.seq), f)
  <1>1. f.seq \in 1..(SeqModulus - 1) /\ SeqModulus \in Nat /\ SeqModulus > 3
    BY WireAssumption DEF Frames
  <1>2. ASSUME NEW M \in Nat, M > 3
        PROVE  0 % M = 0 /\ (-1) % M = M - 1 /\ (M - 2) % M = M - 2 /\ M \div 2 - 1 < M - 2
    BY <1>2
  <1>3. Blocked(f.seq, f)
    <2>1. f.seq - f.seq = 0 /\ f.seq # SeqModulus
      BY <1>1
    <2> QED
      BY <1>1, <1>2, <2>1 DEF Blocked, NoSequence
  <1>4. CASE f.seq + 1 = SeqModulus
    <2>1. f.seq - 1 = SeqModulus - 2 /\ 1 # SeqModulus
      BY <1>1, <1>4
    <2> QED
      BY <1>1, <1>2, <1>3, <1>4, <2>1 DEF Blocked, NoSequence, Following
  <1>5. CASE f.seq + 1 # SeqModulus
    <2>1. f.seq - (f.seq + 1) = -1
      BY <1>1
    <2>2. (-1) % SeqModulus = SeqModulus - 1 /\ SeqModulus \div 2 - 1 < SeqModulus - 2
      BY <1>1, <1>2
    <2> QED
      BY <1>1, <1>3, <1>5, <2>1, <2>2 DEF Blocked, NoSequence, Following
  <1> QED
    BY <1>4, <1>5

\* A frame the plane holds is in flight, and then the link is up.
LEMMA PlaneHolds ==
  ASSUME SInv
  PROVE  /\ InFlight \subseteq Frames
         /\ rx # None => rx \in InFlight /\ link = "up" /\ session
         /\ staged # None => staged.frame \in InFlight /\ link = "up" /\ session
         /\ \A f \in {Ra, Rb} \ {Idle} : f \in InFlight
  <1>1. InFlight \subseteq Frames
    BY DEF SInv, IInv, McuTyped, PlaneTyped, InFlight
  <1>2. rx # None => rx \in InFlight
    BY NoFrames DEF SInv, IInv, PlaneTyped, InFlight
  <1>3. staged # None => staged.frame \in InFlight
    BY NoFrames DEF SInv, IInv, PlaneTyped, InFlight
  <1>4. rx # None \/ staged # None => link = "up" /\ session
    BY DEF SInv, IInv, Forgotten, invalidate
  <1>5. \A f \in {Ra, Rb} \ {Idle} : f \in InFlight
    <2>1. Ra \in {ring[1], ring[2]} /\ Rb \in {ring[1], ring[2]}
      BY DEF Ra, Rb
    <2>2. {ring[1], ring[2]} \subseteq Frames \cup {Idle}
      BY DEF SInv, IInv, McuTyped
    <2> QED
      BY <2>1, <2>2, NoFrames DEF InFlight
  <1> QED
    BY <1>1, <1>2, <1>3, <1>4, <1>5

\* Staging keeps SInv: the frame keeps its place in the order.
LEMMA StageS ==
  ASSUME SInv, Stage, UNCHANGED <<mcuVars, requests, acted>>
  PROVE  SInv'
  <1>1. IInv'
    BY StageInv DEF SInv
  <1>2. /\ rx # None /\ staged = None /\ rx' = None /\ staged' # None
        /\ staged'.frame = rx /\ (staged'.allowed <=> ~Blocked(last_rx, rx))
        /\ UNCHANGED <<store, last_rx, generation, session, failed, export, status, monitor, tx>>
    BY DEF Stage, sequence_class_allowed, Blocked, None, deviceVars, txVars
  <1>3. ses' = ses /\ ring' = ring /\ held' = held /\ link' = link /\ late' = late
    BY DEF mcuVars
  <1>4. InFlight' \subseteq InFlight
    BY <1>2, <1>3 DEF InFlight
  <1>5. StoreFades /\ Runs' /\ ReceivingOurs' = ReceivingOurs /\ BankOurs' = BankOurs /\ SessionFades
    BY <1>2, <1>3, StoreStays DEF SInv, Past, SessionFades
  <1>6. Past' /\ Named' /\ Replaces'
    BY <1>2, <1>4, <1>5, PastFades, NamedFades, ReplacesFades DEF SInv
  <1>7. Bounded' /\ Unheard' /\ Kept'
    BY <1>2, <1>3, <1>4 DEF SInv, Bounded, Unheard, Kept
  <1>8. Emitted'
    BY <1>3 DEF SInv, Emitted, Ra, Rb, After, Following, is_command
  <1>9. Ordered'
    <2>1. Ra' = Ra /\ Rb' = Rb /\ (\A f : Newer(f)' <=> Newer(f)) /\ (\A f : Old(f)' <=> Old(f))
      BY <1>2, <1>3, <1>5 DEF Ra, Rb, Newer, Old, is_command
    <2>2. Seen1 = last_rx /\ Seen1' = Seen2 /\ Seen2' = Seen2
      BY <1>2 DEF Seen1, Seen2
    <2>3. \A n, f : Blocked(n, f)' <=> Blocked(n, f)
      BY DEF Blocked, NoSequence
    <2>4. \A f : AfterStaged(f)' <=> AfterRx(f)
      BY <1>2, <2>2 DEF AfterStaged, AfterRx, After, is_command
    <2>5. \A f : AfterRx(f)'
      BY <1>2 DEF AfterRx
    <2>6. \A f : NewerThanAll(f) => NewerThanAll(f)'
      BY <2>1, <2>4, <2>5 DEF NewerThanAll
    <2>7. CASE link = "up" /\ session
      <3>1. Old(rx) \/ Blocked(Seen1, rx) \/ Newer(rx)
        BY <1>2, <2>7 DEF SInv, Ordered
      <3>2. /\ \A f \in {Ra, Rb} \ {Idle} : Old(f) \/ Blocked(Seen2, f) \/ NewerThanAll(f)
            /\ Ra # Idle /\ Rb # Idle => Old(Rb) \/ Blocked(Seen2, Ra) \/ NewerThanAll(Rb)
        BY <2>7 DEF SInv, Ordered
      <3>3. staged'.allowed => Old(staged.frame)' \/ Newer(staged.frame)'
        BY <1>2, <2>1, <2>2, <3>1
      <3>4. /\ \A f \in {Ra', Rb'} \ {Idle} : Old(f)' \/ Blocked(Seen2', f) \/ NewerThanAll(f)'
            /\ Ra' # Idle /\ Rb' # Idle => Old(Rb') \/ Blocked(Seen2', Ra') \/ NewerThanAll(Rb)'
        BY <2>1, <2>2, <2>6, <3>2
      <3> QED
        BY <1>2, <2>1, <2>3, <3>3, <3>4 DEF Ordered
    <2> QED
      BY <1>2, <1>3, <2>7 DEF Ordered
  <1> QED
    BY <1>1, <1>5, <1>6, <1>7, <1>8, <1>9 DEF SInv

\* The store takes a staged frame: a MAP_BEGIN opens a map of its upload, and
\* nothing else changes what is received or held.
LEMMA MessageStep ==
  ASSUME SInv, staged # None, store' = store \/ store' = MapMessage(staged.frame), ses' = ses
  PROVE  /\ store'.bank = store.bank /\ BankOurs' = BankOurs /\ Runs'
         /\ \/ /\ store'.begin.map = store.begin.map /\ store'.begin.desc = store.begin.desc
               /\ ReceivingOurs' => ReceivingOurs
               /\ store'.state # "IDLE" => store.state # "IDLE"
            \/ /\ staged.frame.type = "MAP_BEGIN"
               /\ store' = MapMessage(staged.frame)
               /\ store'.begin.map = staged.frame.map /\ store'.begin.desc = staged.frame.desc
  <1> DEFINE f == staged.frame
  <1>1. f \in Frames /\ f.boot = ses.boot /\ store \in Stores
    BY StagedFrame DEF SInv, IInv, PlaneTyped
  <1> HIDE DEF f
  <1>2. store'.bank = store.bank => BankOurs' = BankOurs
    BY DEF BankOurs
  <1>3. ses.boot \in Nat /\ store.entries \in Seq(Frames)
    BY <1>1 DEF SInv, IInv, McuTyped, SessionSound, Sessions, Stores
  <1>4. CASE f.type = "MAP_BEGIN" /\ store' = StoreBegin(store, f)
    <2>1. /\ store'.begin = Header(f) /\ store'.entries = <<>> /\ store'.bank = store.bank
      BY <1>1, <1>4, BeginKeeps
    <2>2. store'.begin.map = f.map /\ store'.begin.desc = f.desc
      BY <2>1 DEF Header
    <2>3. Runs'
      BY <2>1 DEF SInv, Runs
    <2>4. MapMessage(f) = store'
      <3>1. store' = store \/ store' = MapMessage(f)
        BY DEF f
      <3> QED
        BY <1>4, <3>1 DEF MapMessage, busy
    <2> QED
      BY <1>2, <1>4, <2>1, <2>2, <2>3, <2>4 DEF f
  <1>5. CASE store.state = "RECEIVE" /\ store' = StoreEntry(store, f)
    <2>1. /\ store'.state = store.state /\ store'.begin = store.begin
          /\ store'.entries = IF Len(store.entries) > MaxFields THEN store.entries
                              ELSE Append(store.entries, f)
          /\ store'.bank = store.bank
      BY <1>1, <1>5, EntryKeeps
    <2>2. store'.entries # <<>> => store'.entries[1].boot <= ses.boot
      <3>1. CASE store.entries = <<>>
        BY <1>1, <1>3, <2>1, <3>1
      <3>2. CASE store.entries # <<>>
        <4>1. Append(store.entries, f)[1] = store.entries[1]
          BY <1>1, <1>3, <3>2
        <4> QED
          BY <2>1, <3>2, <4>1 DEF SInv, Runs
      <3> QED
        BY <3>1, <3>2
    <2>3. Runs'
      BY <2>1, <2>2 DEF SInv, Runs
    <2>4. ReceivingOurs
      BY <1>5 DEF ReceivingOurs
    <2> QED
      BY <1>2, <1>5, <2>1, <2>3, <2>4
  <1>6. CASE store.state = "RECEIVE" /\ store' = StoreCommit(store, f, generation)
    <2>1. /\ store'.begin = store.begin /\ store'.entries = store.entries
          /\ store'.bank = store.bank
      BY <1>1, <1>6, CommitKeeps
    <2>2. Runs' /\ ReceivingOurs
      BY <1>6, <2>1 DEF SInv, Runs, ReceivingOurs
    <2> QED
      BY <1>2, <1>6, <2>1, <2>2
  <1>7. CASE store' = store
    BY <1>2, <1>7, StoreStays DEF SInv
  <1>8. \/ f.type = "MAP_BEGIN" /\ store' = StoreBegin(store, f)
        \/ store.state = "RECEIVE" /\ store' = StoreEntry(store, f)
        \/ store.state = "RECEIVE" /\ store' = StoreCommit(store, f, generation)
        \/ store' = store
    BY DEF f, MapMessage
  <1> QED
    BY <1>4, <1>5, <1>6, <1>7, <1>8

\* What the plane is to do with the frames behind the staged one stays new.
LEMMA LeavesOrder ==
  ASSUME SInv, staged # None, FrameLeaves, ses' = ses,
         \/ store' = store
         \/ staged.allowed /\ store' = MapMessage(staged.frame),
         \/ acted' = acted
         \/ /\ staged.allowed /\ is_command(staged.frame)
            /\ acted' = Append(acted, [request |-> staged.frame.arg,
                                       upload |-> UploadOf(staged.frame)]),
         UNCHANGED <<rx, ring, late, link, session, generation>>
  PROVE  Ordered'
  <1>1. /\ store'.bank = store.bank /\ BankOurs' = BankOurs
        /\ \/ /\ store'.begin.map = store.begin.map /\ store'.begin.desc = store.begin.desc
              /\ ReceivingOurs' => ReceivingOurs
           \/ /\ staged.frame.type = "MAP_BEGIN" /\ staged.allowed
              /\ store'.begin.map = staged.frame.map
    <2>1. CASE store' = store
      BY <2>1, StoreStays
    <2>2. CASE staged.allowed /\ store' = MapMessage(staged.frame)
      BY <2>2, MessageStep
    <2> QED
      BY <2>1, <2>2
  <1>2. acted \in Seq([request : Nat, upload : [map : Nat, desc : Nat, boot : Nat]])
    BY DEF SInv, Past
  <1>3. ASSUME NEW f, Newer(f), AfterStaged(f)
        PROVE  Newer(f)'
    <2>1. is_command(f) => \A i \in DOMAIN acted' : acted'[i].request < f.arg
      <3>1. CASE acted' = acted
        BY <1>3, <3>1 DEF Newer
      <3>2. CASE /\ staged.allowed /\ is_command(staged.frame)
                 /\ acted' = Append(acted, [request |-> staged.frame.arg,
                                            upload |-> UploadOf(staged.frame)])
        <4>1. is_command(f) => staged.frame.arg < f.arg
          BY <1>3, <3>2 DEF AfterStaged, After
        <4>2. DOMAIN acted' = 1..(Len(acted) + 1) /\ Len(acted) \in Nat /\ DOMAIN acted = 1..Len(acted)
              /\ \A i \in DOMAIN acted : acted'[i] = acted[i]
              /\ acted'[Len(acted) + 1].request = staged.frame.arg
          BY <1>2, <3>2, SMTT(30)
        <4> QED
          BY <1>3, <4>1, <4>2 DEF Newer
      <3> QED
        BY <3>1, <3>2
    <2>2. f.type = "MAP_BEGIN" =>
            /\ ReceivingOurs' /\ store'.begin.desc = generation => store'.begin.map < f.map
            /\ BankOurs' /\ store'.bank.desc = generation => store'.bank.map < f.map
      BY <1>1, <1>3 DEF Newer, AfterStaged, After
    <2> QED
      BY <2>1, <2>2 DEF Newer, is_command
  <1>4. staged' = None /\ Seen1' = Seen1
    BY DEF FrameLeaves, Seen1
  <1>5. \A n, f : Blocked(n, f)' <=> Blocked(n, f)
    BY DEF Blocked, NoSequence
  <1>6. Seen2' = Seen2 /\ Ra' = Ra /\ Rb' = Rb /\ (\A f : Old(f)' <=> Old(f))
    BY <1>4, <1>5 DEF Seen2, Ra, Rb, Old
  <1>7. \A f : AfterStaged(f)' /\ (AfterRx(f)' <=> AfterRx(f))
    BY <1>4, <1>5 DEF AfterStaged, AfterRx, After, is_command
  <1>8. \A f : NewerThanAll(f) => NewerThanAll(f)'
    BY <1>3, <1>7 DEF NewerThanAll
  <1>9. CASE link = "up" /\ session
    <2>1. rx # None => Old(rx) \/ Blocked(Seen1, rx) \/ (Newer(rx) /\ AfterStaged(rx))
      BY <1>9 DEF SInv, Ordered
    <2>2. /\ \A f \in {Ra, Rb} \ {Idle} : Old(f) \/ Blocked(Seen2, f) \/ NewerThanAll(f)
          /\ Ra # Idle /\ Rb # Idle => Old(Rb) \/ Blocked(Seen2, Ra) \/ NewerThanAll(Rb)
      BY <1>9 DEF SInv, Ordered
    <2>3. rx' # None => Old(rx)' \/ Blocked(Seen1, rx)' \/ (Newer(rx)' /\ AfterStaged(rx)')
      BY <1>3, <1>4, <1>5, <1>6, <1>7, <2>1
    <2>4. /\ \A f \in {Ra', Rb'} \ {Idle} : Old(f)' \/ Blocked(Seen2', f) \/ NewerThanAll(f)'
          /\ Ra' # Idle /\ Rb' # Idle => Old(Rb') \/ Blocked(Seen2', Ra') \/ NewerThanAll(Rb)'
      BY <1>6, <1>8, <2>2
    <2> QED
      BY <1>4, <1>5, <1>6, <2>3, <2>4 DEF Ordered
  <1> QED
    BY <1>9 DEF Ordered

\* A staged frame leaves, into the store, the engine or nowhere, and SInv holds.
LEMMA LeavesS ==
  ASSUME SInv, staged # None, FrameLeaves,
         \/ store' = store
         \/ staged.allowed /\ store' = MapMessage(staged.frame),
         \/ acted' = acted
         \/ /\ staged.allowed /\ is_command(staged.frame)
            /\ acted' = Append(acted, [request |-> staged.frame.arg,
                                       upload |-> UploadOf(staged.frame)]),
         UNCHANGED <<link_ready, deviceVars, rx, txVars, mcuVars, requests>>
  PROVE  SInv'
  <1>1. IInv'
    BY LeavesInv DEF SInv
  <1>2. /\ UNCHANGED <<generation, session, failed, export, status, monitor, tx>>
        /\ ses' = ses /\ ring' = ring /\ held' = held /\ link' = link /\ late' = late
    BY DEF mcuVars, deviceVars, txVars
  <1>3. staged' = None /\ InFlight' \subseteq InFlight
    BY <1>2 DEF FrameLeaves, InFlight
  <1>4. /\ staged.frame \in InFlight /\ staged.frame \in Frames /\ link = "up" /\ session
    BY PlaneHolds
  <1>5. /\ store'.bank = store.bank /\ BankOurs' = BankOurs /\ Runs'
        /\ \/ /\ store'.begin.map = store.begin.map /\ store'.begin.desc = store.begin.desc
              /\ ReceivingOurs' => ReceivingOurs
              /\ store'.state # "IDLE" => store.state # "IDLE"
           \/ /\ staged.frame.type = "MAP_BEGIN" /\ staged.allowed
              /\ store'.begin.map = staged.frame.map /\ store'.begin.desc = staged.frame.desc
    <2>1. CASE store' = store
      BY <1>2, <2>1, StoreStays DEF SInv
    <2>2. CASE staged.allowed /\ store' = MapMessage(staged.frame)
      BY <1>2, <2>2, MessageStep
    <2> QED
      BY <2>1, <2>2
  <1>6. Past'
    <2>1. UploadOf(staged.frame) \in [map : Nat, desc : Nat, boot : Nat] /\ staged.frame.arg \in Nat
      <3>1. staged.frame.map \in Nat /\ staged.frame.desc \in Nat /\ staged.frame.boot \in Nat
            /\ staged.frame.arg \in Nat
        BY <1>4, PlaneAssumption, WireAssumption DEF Frames, Generations
      <3> QED
        BY <3>1 DEF UploadOf
    <2> DEFINE Done == [request : Nat, upload : [map : Nat, desc : Nat, boot : Nat]]
               new == [request |-> staged.frame.arg, upload |-> UploadOf(staged.frame)]
    <2>2. new \in Done /\ new.request = staged.frame.arg
      BY <2>1
    <2>3. acted \in Seq(Done) /\ (\A i \in DOMAIN acted : Older(acted[i].request))
      BY DEF SInv, Past
    <2>4. is_command(staged.frame) => Older(staged.frame.arg)
      BY <1>4 DEF SInv, Past
    <2> HIDE DEF Done, new
    <2>5. acted' = acted \/ (is_command(staged.frame) /\ acted' = Append(acted, new))
      BY DEF new
    <2>6. acted' \in Seq(Done) /\ \A i \in DOMAIN acted' : Older(acted'[i].request)
      BY <2>2, <2>3, <2>4, <2>5
    <2>7. \A n : Older(n)' <=> Older(n)
      BY <1>2 DEF Older
    <2>8. ReceivingOurs' => store'.begin.map <= ses.map
      BY <1>4, <1>5 DEF SInv, Past
    <2> QED
      BY <1>2, <1>3, <1>5, <2>6, <2>7, <2>8 DEF SInv, Past, Done, is_command
  <1>7. Named'
    <2>1. PICK D \in [1..(MapModulus - 1) -> Generations] : NamedBy(D)
      BY DEF SInv, Named
    <2>2. staged.frame.map \in DOMAIN D /\ D[staged.frame.map] = staged.frame.desc
      BY <1>4, <2>1 DEF NamedBy, Frames
    <2>3. NamedBy(D)'
      BY <1>2, <1>3, <1>5, <2>1, <2>2 DEF NamedBy
    <2> QED
      BY <2>3 DEF Named
  <1>8. Replaces'
    <2>1. staged.frame.type = "MAP_BEGIN" /\ staged.allowed /\ staged.frame.desc = generation
            /\ BankOurs /\ store.bank.desc = generation => store.bank.map < staged.frame.map
      BY <1>4 DEF SInv, Ordered, Newer, Old
    <2> QED
      BY <1>2, <1>5, <2>1 DEF SInv, Replaces
  <1>9. Bounded' /\ Unheard' /\ Kept'
    BY <1>2, <1>3, <1>4, <1>5 DEF SInv, Bounded, Unheard, Kept
  <1>10. Emitted'
    BY <1>2 DEF SInv, Emitted, Ra, Rb, After, Following, is_command
  <1>11. Ordered'
    BY <1>2, LeavesOrder
  <1> QED
    BY <1>1, <1>5, <1>6, <1>7, <1>8, <1>9, <1>10, <1>11 DEF SInv

\* What the bank holds after a validation was in the bank or was received.
LEMMA EndStep ==
  ASSUME SInv, Validate, ses' = ses
  PROVE  /\ ~ReceivingOurs' /\ Runs' /\ store'.state = "IDLE"
         /\ BankOurs' => \/ /\ BankOurs /\ store'.bank.map = store.bank.map
                            /\ store'.bank.desc = store.bank.desc
                         \/ /\ ReceivingOurs /\ store'.bank.map = store.begin.map
                            /\ store'.bank.desc = store.begin.desc
  <1>1. store \in Stores /\ store' = StoreEnd(store, generation) /\ store.state = "VALIDATE"
    BY DEF SInv, IInv, PlaneTyped, Validate
  <1>2. /\ store'.state = "IDLE"
        /\ store'.bank = IF Accepted(store, generation) THEN Flipped(store) ELSE store.bank
    BY <1>1, EndKeeps
  <1>3. store'.entries = <<>>
    BY <1>1 DEF StoreEnd, Stores
  <1>4. /\ Flipped(store).entries = store.entries /\ Flipped(store).map = store.begin.map
        /\ Flipped(store).desc = store.begin.desc
    BY DEF Flipped
  <1>5. Runs' /\ ~ReceivingOurs'
    BY <1>2, <1>3, <1>4 DEF SInv, Runs, ReceivingOurs
  <1>6. CASE Accepted(store, generation)
    BY <1>1, <1>2, <1>4, <1>5, <1>6 DEF BankOurs, ReceivingOurs
  <1>7. CASE ~Accepted(store, generation)
    BY <1>2, <1>5, <1>7 DEF BankOurs
  <1> QED
    BY <1>6, <1>7

\* The end of a validation keeps SInv.
LEMMA ValidateS ==
  ASSUME SInv, Validate, UNCHANGED <<mcuVars, requests, acted>>
  PROVE  SInv'
  <1>1. IInv'
    BY ValidateInv DEF SInv
  <1>2. /\ UNCHANGED <<rx, staged, last_rx, generation, session, failed, export, monitor, tx>>
        /\ ses' = ses /\ ring' = ring /\ held' = held /\ link' = link /\ late' = late
        /\ InFlight' = InFlight
    BY DEF Validate, mcuVars, deviceVars, InFlight
  <1>3. /\ ~ReceivingOurs' /\ Runs' /\ store'.state = "IDLE"
        /\ BankOurs' => \/ /\ BankOurs /\ store'.bank.map = store.bank.map
                           /\ store'.bank.desc = store.bank.desc
                        \/ /\ ReceivingOurs /\ store'.bank.map = store.begin.map
                           /\ store'.bank.desc = store.begin.desc
    BY <1>2, EndStep
  <1>4. Past'
    BY <1>2, <1>3 DEF SInv, Past, Older, is_command
  <1>5. Named'
    <2>1. PICK D \in [1..(MapModulus - 1) -> Generations] : NamedBy(D)
      BY DEF SInv, Named
    <2>2. NamedBy(D)'
      BY <1>2, <1>3, <2>1 DEF NamedBy
    <2> QED
      BY <2>2 DEF Named
  <1>6. Replaces'
    BY <1>3 DEF Replaces
  <1>7. status' # None => status' = status \/ status'.type \in {"ACCEPTED", "REJECTED"}
    BY DEF Validate, Message
  <1>8. Bounded' /\ Unheard' /\ Kept'
    BY <1>2, <1>3, <1>7 DEF SInv, Bounded, Unheard, Kept
  <1>9. Emitted'
    BY <1>2 DEF SInv, Emitted, Ra, Rb, After, Following, is_command
  <1>10. Ordered'
    <2>1. \A f : Newer(f) => Newer(f)'
      BY <1>2, <1>3 DEF Newer, is_command
    <2>2. \A n, f : Blocked(n, f)' <=> Blocked(n, f)
      BY DEF Blocked, NoSequence
    <2>3. Seen1' = Seen1 /\ Ra' = Ra /\ Rb' = Rb /\ (\A f : Old(f)' <=> Old(f))
      BY <1>2 DEF Seen1, Ra, Rb, Old
    <2>4. Seen2' = Seen2
      BY <1>2, <2>2, <2>3 DEF Seen2
    <2>5. \A f : (AfterStaged(f)' <=> AfterStaged(f)) /\ (AfterRx(f)' <=> AfterRx(f))
      BY <1>2, <2>2, <2>3 DEF AfterStaged, AfterRx, After, is_command
    <2>6. \A f : NewerThanAll(f) => NewerThanAll(f)'
      BY <2>1, <2>5 DEF NewerThanAll
    <2>7. CASE link = "up" /\ session
      <3>1. /\ staged # None /\ staged.allowed => Old(staged.frame) \/ Newer(staged.frame)
            /\ rx # None => Old(rx) \/ Blocked(Seen1, rx) \/ (Newer(rx) /\ AfterStaged(rx))
        BY <2>7 DEF SInv, Ordered
      <3>2. /\ \A f \in {Ra, Rb} \ {Idle} : Old(f) \/ Blocked(Seen2, f) \/ NewerThanAll(f)
            /\ Ra # Idle /\ Rb # Idle => Old(Rb) \/ Blocked(Seen2, Ra) \/ NewerThanAll(Rb)
        BY <2>7 DEF SInv, Ordered
      <3>3. /\ staged' # None /\ staged'.allowed => Old(staged.frame)' \/ Newer(staged.frame)'
            /\ rx' # None => Old(rx)' \/ Blocked(Seen1, rx)' \/ (Newer(rx)' /\ AfterStaged(rx)')
        BY <1>2, <2>1, <2>2, <2>3, <2>5, <3>1
      <3>4. /\ \A f \in {Ra', Rb'} \ {Idle} : Old(f)' \/ Blocked(Seen2', f) \/ NewerThanAll(f)'
            /\ Ra' # Idle /\ Rb' # Idle => Old(Rb') \/ Blocked(Seen2', Ra') \/ NewerThanAll(Rb)'
        BY <2>3, <2>4, <2>6, <3>2
      <3> QED
        BY <1>2, <2>2, <2>3, <2>4, <3>3, <3>4 DEF Ordered
    <2> QED
      BY <1>2, <2>7 DEF Ordered
  <1> QED
    BY <1>1, <1>3, <1>4, <1>5, <1>6, <1>8, <1>9, <1>10 DEF SInv

-----------------------------------------------------------------------------
\* What the session makes of one message: it goes on with its upload, or gives
\* it up, or begins the next.
Goes(s, t) ==
  /\ t.boot = s.boot /\ t.seq = s.seq /\ t.req \in {s.req, NoRequest}
  /\ \/ /\ t.map = s.map
        /\ t.phase \in Uploading =>
             /\ t.desc = s.desc
             /\ t.phase = s.phase \/ (t.phase = "INJECTING" /\ s.phase = "WAIT_COMMIT")
     \/ /\ s.phase = "WAIT_REPORT" /\ t.phase = "SEND_BEGIN"
        /\ t.map = NextMapGeneration(s) /\ t.desc = s.desc

\* set_link(true) starts no upload.
LEMMA LinkGoes ==
  ASSUME NEW s, SessionSound(s)
  PROVE  Goes(s, SetLink(s, TRUE)) /\ SetLink(s, TRUE).desc = s.desc
  <1>1. s \in Sessions /\ resting_phase(s) \notin Uploading
    BY DEF SessionSound, resting_phase, Uploading, Sending
  <1> QED
    BY <1>1 DEF Goes, SetLink, Sessions

\* A message starts at most one upload.
LEMMA ConsumeGoes ==
  ASSUME NEW s, SessionSound(s), NEW d, NEW msg \in Messages \cup {None}
  PROVE  /\ Goes(s, Consume(s, d, msg))
         /\ Consume(s, d, msg).desc \in {s.desc} \cup (IF msg.type = "DESCRIPTOR" THEN {msg.desc} ELSE {})
  <1>1. s \in Sessions
    BY DEF SessionSound
  <1>2. Goes(s, s)
    BY DEF Goes
  <1>3. CASE msg.type = "DESCRIPTOR"
    <2> DEFINE slot == PushedSlot(d, msg.desc, msg.arg)
               edge == newly_complete(d, msg.desc, msg.arg)
               known == adopt_generation(s, msg.desc)
               t == [known EXCEPT !.settle = 0, !.complete = @ \union (IF edge THEN {slot} ELSE {})]
               lost_device == forget_device(s, msg.desc)
    <2>1. known \in Sessions
      BY <1>3, AdoptSound DEF Messages, None, SessionSound
    <2>2. /\ t.boot = known.boot /\ t.seq = known.seq /\ t.req = known.req /\ t.map = known.map
          /\ t.phase = known.phase /\ t.desc = known.desc
      BY <2>1 DEF Sessions
    <2>3. /\ lost_device.boot = s.boot /\ lost_device.seq = s.seq /\ lost_device.req = NoRequest
          /\ lost_device.map = s.map /\ lost_device.phase \notin Uploading
          /\ lost_device.desc = msg.desc
      BY <1>1 DEF forget_device, Sessions, Uploading, Sending
    <2>4. known \in {s, lost_device}
      BY DEF adopt_generation
    <2> HIDE DEF t, known, lost_device
    <2>5. Goes(s, t) /\ t.desc \in {s.desc, msg.desc}
      BY <2>2, <2>3, <2>4 DEF Goes
    <2>6. Consume(s, d, msg) \in {s, t}
      BY <1>3 DEF Consume, ObserveDescriptor, t, known
    <2> QED
      BY <1>2, <1>3, <2>5, <2>6
  <1>4. CASE msg.type = "REPORT"
    <2> DEFINE t == begin_upload(s)
    <2>1. /\ t.boot = s.boot /\ t.seq = s.seq /\ t.req = s.req /\ t.phase = "SEND_BEGIN"
          /\ t.map = NextMapGeneration(s) /\ t.desc = s.desc
      BY <1>1 DEF begin_upload, Sessions
    <2>2. Consume(s, d, msg) = s \/ (s.phase = "WAIT_REPORT" /\ Consume(s, d, msg) = t)
      BY <1>4 DEF Consume, ObserveReport
    <2> HIDE DEF t
    <2> QED
      BY <1>2, <2>1, <2>2 DEF Goes
  <1>5. CASE msg.type \in {"ACCEPTED", "REJECTED"}
    <2> DEFINE t == [s EXCEPT !.phase = "WAIT_REPORT"]
               u == [s EXCEPT !.active = msg.arg, !.phase = "INJECTING"]
    <2>1. /\ t.boot = s.boot /\ t.seq = s.seq /\ t.req = s.req /\ t.map = s.map
          /\ t.phase = "WAIT_REPORT" /\ t.desc = s.desc
      BY <1>1 DEF Sessions
    <2>2. /\ u.boot = s.boot /\ u.seq = s.seq /\ u.req = s.req /\ u.map = s.map
          /\ u.phase = "INJECTING" /\ u.desc = s.desc
      BY <1>1 DEF Sessions
    <2>3. \/ Consume(s, d, msg) \in {s, t}
          \/ s.phase = "WAIT_COMMIT" /\ Consume(s, d, msg) = u
      BY <1>5 DEF Consume, ObserveMapStatus
    <2> HIDE DEF t, u
    <2> QED
      BY <1>2, <2>1, <2>2, <2>3 DEF Goes, Uploading, Sending
  <1> QED
    BY <1>2, <1>3, <1>4, <1>5 DEF Consume

\* The retirement interrupt: what it does to the session, and what it sends.
Retired(msg, f) ==
  /\ ring' = <<ring[2], f>> /\ held' = None
  /\ ses'.boot = ses.boot /\ ses'.phase # "SEND_BEGIN" /\ ses'.req \in {ses.req, NoRequest}
  /\ \/ ses'.desc = ses.desc
     \/ \E m \in {held, msg} : m.type = "DESCRIPTOR" /\ ses'.desc = m.desc
  /\ \/ /\ ses'.map = ses.map
        /\ ses'.phase \in Uploading \/ f # Idle => ses.phase \in Uploading /\ ses'.desc = ses.desc
     \/ ses'.map = NextMapGeneration(ses)
  /\ f = Idle => ses'.seq = ses.seq
  /\ f # Idle =>
       /\ f \in Frames /\ f.seq = Following(ses.seq) /\ ses'.seq = f.seq
       /\ f.map = ses'.map /\ f.desc = ses'.desc
       /\ is_command(f) => /\ ses.req # NoRequest /\ f.arg = ses.req.id
                           /\ ses'.req = NoRequest
       /\ f.type = "MAP_BEGIN" => ses'.map = NextMapGeneration(ses)

\* The retirement interrupt does what Retired says, with two messages at most.
LEMMA RetireStep ==
  ASSUME SInv, NEW msg \in Messages \cup {None}, Retire(msg)
  PROVE  \E f : Retired(msg, f)
  <1> DEFINE up == SetLink(ses, TRUE)
             first == Consume(up, set, held)
             waiting == ConsumedBySet(set, held)
             second == Consume(first, waiting, msg)
             out == FillTx(second)
  <1>1. SessionSound(ses) /\ SetSound(set) /\ held \in Messages \cup {None} /\ ses.phase # "SEND_BEGIN"
    BY DEF SInv, IInv, McuTyped, Past
  <1>2. SessionSound(up) /\ Goes(ses, up) /\ up.desc = ses.desc
    BY <1>1, SetLinkSound, LinkGoes
  <1>3. /\ SessionSound(first) /\ Goes(up, first)
        /\ first.desc \in {up.desc} \cup (IF held.type = "DESCRIPTOR" THEN {held.desc} ELSE {})
    <2> HIDE DEF up
    <2> QED
      BY <1>1, <1>2, ConsumeSound, ConsumeGoes
  <1>4. SetSound(waiting)
    BY <1>1, ConsumedBySetSound
  <1>5. /\ SessionSound(second) /\ Goes(first, second)
        /\ second.desc \in {first.desc} \cup (IF msg.type = "DESCRIPTOR" THEN {msg.desc} ELSE {})
    <2> HIDE DEF first, waiting
    <2> QED
      BY <1>3, <1>4, ConsumeSound, ConsumeGoes
  <1>6. Filled(second, out)
    <2> HIDE DEF second
    <2> QED
      BY <1>5, FillTxSound
  <1>7. ses' = out.session /\ held' = None /\ ring' = <<ring[2], out.frame>>
    BY DEF Retire
  <1> HIDE DEF out, second, first, up, waiting
  <1>8. \A s, t : t.map = s.map => NextMapGeneration(t) = NextMapGeneration(s)
    BY DEF NextMapGeneration
  <1>9. "SEND_BEGIN" \in Uploading
    BY DEF Uploading, Sending
  <1>10. up.map = ses.map /\ (up.phase \in Uploading => ses.phase \in Uploading /\ up.desc = ses.desc)
         /\ up.phase # "SEND_BEGIN"
    <2>1. SetLink(ses, TRUE).phase # "SEND_BEGIN" /\ SetLink(ses, TRUE).map = ses.map
      BY <1>1 DEF SetLink, SessionSound, Sessions, resting_phase
    <2>2. up.phase = "INJECTING" /\ ses.phase = "WAIT_COMMIT" => ses.phase \in Uploading
      BY DEF Uploading
    <2> QED
      BY <1>2, <2>1, <2>2 DEF Goes, up
  <1>11. \/ /\ first.map = ses.map /\ first.phase # "SEND_BEGIN"
            /\ first.phase \in Uploading => ses.phase \in Uploading /\ first.desc = ses.desc
         \/ first.map = NextMapGeneration(ses) /\ first.phase = "SEND_BEGIN"
    BY <1>3, <1>8, <1>9, <1>10 DEF Goes, Uploading
  <1>12. \/ /\ second.map = ses.map /\ second.phase # "SEND_BEGIN"
            /\ second.phase \in Uploading => ses.phase \in Uploading /\ second.desc = ses.desc
         \/ second.map = NextMapGeneration(ses)
    BY <1>5, <1>8, <1>9, <1>11 DEF Goes, Uploading
  <1>13. /\ second.boot = ses.boot /\ second.seq = ses.seq /\ second.req \in {ses.req, NoRequest}
         /\ second.desc = ses.desc \/ \E m \in {held, msg} : m.type = "DESCRIPTOR" /\ second.desc = m.desc
    BY <1>2, <1>3, <1>5 DEF Goes
  <1>14. NextFrameSeq(second) = Following(ses.seq)
    BY <1>13 DEF NextFrameSeq, Following
  <1>15. Retired(msg, out.frame)
    BY <1>6, <1>7, <1>12, <1>13, <1>14 DEF Retired, Filled, is_command
  <1> QED
    BY <1>15

-----------------------------------------------------------------------------
\* What a slot leaves alone of the order.
LEMMA SlotFacts ==
  ASSUME SInv, Slot
  PROVE  /\ link = "up" /\ tx' = None
         /\ UNCHANGED <<link, generation, session, failed, staged, last_rx, store, status, export,
                        monitor, requests, acted>>
         /\ rx' = rx \/ (rx = None /\ rx' = ring[1] /\ ring[1] \in Frames)
  <1>1. rx' = rx \/ Published(ring[1])
    BY DEF Slot
  <1>2. ring[1] \in Frames \cup {Idle} /\ Idle.type = "IDLE"
    BY DEF SInv, IInv, McuTyped, Idle, Frame
  <1>3. rx' = rx \/ (rx = None /\ rx' = ring[1] /\ ring[1] \in Frames)
    BY <1>1, <1>2 DEF Published
  <1> QED
    BY <1>3 DEF Slot, Fault, NoFault, SlotLate, SlotStalled, deviceVars

\* The order itself rests while the plane does nothing.
LEMMA OrderKept ==
  ASSUME UNCHANGED <<staged, last_rx, store, acted, generation>>, ses'.boot = ses.boot
  PROVE  /\ Seen1' = Seen1
         /\ \A n, f : Blocked(n, f)' <=> Blocked(n, f)
         /\ \A f : (Newer(f)' <=> Newer(f)) /\ (AfterStaged(f)' <=> AfterStaged(f))
         /\ \A f : Old(f)' <=> Old(f)
  <1>1. ReceivingOurs' = ReceivingOurs /\ BankOurs' = BankOurs
    BY StoreStays
  <1> QED
    BY <1>1 DEF Seen1, Blocked, NoSequence, Newer, AfterStaged, After, Old, is_command

\* What is published is in its place, and so are the two banks behind it.
LEMMA Publishes ==
  ASSUME SInv, session, rx = None, NEW a, NEW b, a = Ra, b = Rb, rx' \in {a, b} \ {Idle},
         link = "up", UNCHANGED <<staged, last_rx, store, acted, generation>>, ses'.boot = ses.boot
  PROVE  /\ Old(rx)' \/ Blocked(Seen1, rx)' \/ (Newer(rx)' /\ AfterStaged(rx)')
         /\ \A f \in {a, b} \ {Idle} : Old(f)' \/ Blocked(Seen2', f) \/ NewerThanAll(f)'
         /\ a # Idle /\ b # Idle => Old(b)' \/ Blocked(Seen2', a) \/ NewerThanAll(b)'
  <1>1. /\ Seen1' = Seen1 /\ \A n, f : Blocked(n, f)' <=> Blocked(n, f)
        /\ \A f : (Newer(f)' <=> Newer(f)) /\ (AfterStaged(f)' <=> AfterStaged(f))
        /\ \A f : Old(f)' <=> Old(f)
    BY OrderKept
  <1>2. Seen2 = Seen1
    BY DEF Seen2
  <1>3. /\ \A f \in {a, b} \ {Idle} : Old(f) \/ Blocked(Seen2, f) \/ NewerThanAll(f)
        /\ a # Idle /\ b # Idle => Old(b) \/ Blocked(Seen2, a) \/ NewerThanAll(b)
    BY DEF SInv, Ordered
  <1>4. a # Idle /\ b # Idle => After(a, b) /\ b.seq = Following(a.seq)
    BY DEF SInv, Emitted
  <1>5. {a, b} \ {Idle} \subseteq Frames
    BY PlaneHolds
  <1>6. rx' # None /\ rx' \in Frames
    BY <1>5, NoFrames
  <1>7. Old(rx') \/ Blocked(Seen1, rx') \/ (Newer(rx') /\ AfterStaged(rx'))
    BY <1>2, <1>3 DEF NewerThanAll
  <1>8. Old(rx)' \/ Blocked(Seen1, rx)' \/ (Newer(rx)' /\ AfterStaged(rx)')
    <2>1. (Old(rx)' <=> Old(rx')) /\ (Blocked(Seen1, rx)' <=> Blocked(Seen1', rx'))
          /\ (Newer(rx)' <=> Newer(rx')) /\ (AfterStaged(rx)' <=> AfterStaged(rx'))
      BY <1>1
    <2> QED
      BY <1>1, <1>7, <2>1
  <1>9. CASE Blocked(Seen1, rx')
    <2>1. Seen2' = Seen2 /\ \A f : AfterRx(f)'
      BY <1>1, <1>2, <1>6, <1>9 DEF Seen2, AfterRx
    <2>2. \A f : NewerThanAll(f) => NewerThanAll(f)'
      BY <1>1, <2>1 DEF NewerThanAll
    <2> QED
      BY <1>1, <1>3, <1>8, <2>1, <2>2
  <1>10. CASE ~Blocked(Seen1, rx')
    <2>1. Seen2' = rx'.seq
      BY <1>1, <1>6, <1>10 DEF Seen2
    <2>2. rx' = a => /\ Blocked(Seen2', a)
                     /\ b # Idle => Old(b)' \/ NewerThanAll(b)'
      <3> HAVE rx' = a
      <3>1. Blocked(Seen2', a)
        BY <1>6, <2>1, BlockedAgain
      <3>2. ASSUME b # Idle
            PROVE  Old(b)' \/ NewerThanAll(b)'
        <4>1. Old(b) \/ NewerThanAll(b)
          BY <1>2, <1>3, <1>10, <3>2
        <4>2. After(a, b)
          BY <1>4, <3>2
        <4>3. AfterRx(b)' <=> (~Blocked(Seen1', rx') => After(rx', b))
          BY <1>1, <1>6 DEF AfterRx, After, is_command
        <4> QED
          BY <1>1, <4>1, <4>2, <4>3 DEF NewerThanAll
      <3> QED
        BY <3>1, <3>2
    <2>3. rx' = b => /\ Blocked(Seen2', b)
                     /\ a # Idle => Blocked(Seen2', a)
      BY <1>4, <1>5, <1>6, <2>1, BlockedAgain
    <2> QED
      BY <1>8, <2>2, <2>3
  <1> QED
    BY <1>9, <1>10

\* The banks rotate, and nothing is retired.
LEMMA RotatesS ==
  ASSUME SInv, Slot, SlotLate \/ SlotStalled
  PROVE  SInv'
  <1>1. IInv'
    BY SlotInv DEF SInv
  <1>2. /\ link = "up" /\ tx' = None
        /\ UNCHANGED <<link, generation, session, failed, staged, last_rx, store, status, export,
                       monitor, requests, acted>>
        /\ rx' = rx \/ (rx = None /\ rx' = ring[1] /\ ring[1] \in Frames)
    BY SlotFacts
  <1>3. ses' = ses /\ held' = held /\ late' = ~late /\ ring' = <<ring[2], ring[1]>> /\ late \in BOOLEAN
    BY DEF SlotLate, SlotStalled, Rotate, SInv, IInv, McuTyped
  <1>4. Ra' = Ra /\ Rb' = Rb
    BY <1>3 DEF Ra, Rb
  <1>5. InFlight' \subseteq InFlight
    BY <1>2, <1>3, NoFrames DEF InFlight
  <1>6. StoreFades /\ Runs' /\ ReceivingOurs' = ReceivingOurs /\ BankOurs' = BankOurs /\ SessionFades
    BY <1>2, <1>3, StoreStays DEF SInv, Past, SessionFades
  <1>7. Past' /\ Named' /\ Replaces'
    BY <1>2, <1>5, <1>6, PastFades, NamedFades, ReplacesFades DEF SInv
  <1>8. None.type # "DESCRIPTOR"
    BY DEF None
  <1>9. Bounded' /\ Unheard' /\ Kept'
    BY <1>2, <1>3, <1>5, <1>8 DEF SInv, Bounded, Unheard, Kept
  <1>10. Emitted'
    BY <1>2, <1>3, <1>4 DEF SInv, Emitted, After, Following, is_command
  <1>11. /\ Seen1' = Seen1 /\ \A n, f : Blocked(n, f)' <=> Blocked(n, f)
         /\ \A f : (Newer(f)' <=> Newer(f)) /\ (AfterStaged(f)' <=> AfterStaged(f))
         /\ \A f : Old(f)' <=> Old(f)
    BY <1>2, <1>3, OrderKept
  <1>12. CASE ~session
    <2>1. Ordered'
      BY <1>2, <1>12 DEF Ordered
    <2> QED
      BY <1>1, <1>6, <1>7, <1>9, <1>10, <2>1 DEF SInv
  <1>13. CASE session /\ rx' = rx
    <2>1. Seen2' = Seen2 /\ \A f : AfterRx(f)' <=> AfterRx(f)
      BY <1>11, <1>13 DEF Seen2, AfterRx, After, is_command
    <2>2. \A f : NewerThanAll(f)' <=> NewerThanAll(f)
      BY <1>11, <2>1 DEF NewerThanAll
    <2>3. Ordered'
      BY <1>2, <1>4, <1>11, <1>13, <2>1, <2>2 DEF SInv, Ordered
    <2> QED
      BY <1>1, <1>6, <1>7, <1>9, <1>10, <2>3 DEF SInv
  <1>14. CASE session /\ rx' # rx
    <2>1. rx = None /\ rx' \in {Ra, Rb} \ {Idle}
      BY <1>2, <1>14, NoFrames DEF Ra, Rb
    <2>2. /\ Old(rx)' \/ Blocked(Seen1, rx)' \/ (Newer(rx)' /\ AfterStaged(rx)')
          /\ \A f \in {Ra, Rb} \ {Idle} : Old(f)' \/ Blocked(Seen2', f) \/ NewerThanAll(f)'
          /\ \A a \in {Ra}, b \in {Rb} :
               a # Idle /\ b # Idle => Old(b)' \/ Blocked(Seen2', a) \/ NewerThanAll(b)'
      BY <1>2, <1>3, <1>14, <2>1, Publishes
    <2>3. Ordered'
      BY <1>2, <1>4, <1>11, <2>2 DEF SInv, Ordered
    <2> QED
      BY <1>1, <1>6, <1>7, <1>9, <1>10, <2>3 DEF SInv
  <1> QED
    BY <1>12, <1>13, <1>14

\* The frame that is made is named after its upload.
LEMMA RetiresNamed ==
  ASSUME SInv, NoWrap, NEW msg \in {tx, None}, NEW f, Retired(msg, f), SessionSound(ses'),
         store' = store, InFlight' \subseteq InFlight \cup ({f} \ {Idle})
  PROVE  Named'
  <1>1. ReceivingOurs' = ReceivingOurs /\ BankOurs' = BankOurs
    BY StoreStays DEF Retired
  <1>2. PICK D \in [1..(MapModulus - 1) -> Generations] : NamedBy(D)
    BY DEF SInv, Named
  <1>3. CASE /\ ses'.map = ses.map
             /\ ses'.phase \in Uploading \/ f # Idle => ses.phase \in Uploading /\ ses'.desc = ses.desc
    <2>1. NamedBy(D)'
      BY <1>1, <1>2, <1>3 DEF NamedBy, Retired
    <2> QED
      BY <2>1 DEF Named
  <1>4. CASE ses'.map = NextMapGeneration(ses)
    <2>1. ses.map \in 0..(MapModulus - 1) /\ MapModulus \in Nat /\ ses'.desc \in Generations \cup {0}
      BY WireAssumption DEF SInv, IInv, McuTyped, SessionSound, Sessions
    <2>2. ses'.map = ses.map + 1 /\ ses.map + 1 \in 1..(MapModulus - 1)
      BY <1>4, <2>1 DEF NoWrap, NextMapGeneration
    <2>3. /\ \A g \in InFlight : g.map # ses'.map
          /\ ReceivingOurs => store.begin.map # ses'.map
          /\ BankOurs => store.bank.map # ses'.map
      <3>1. InFlight \subseteq Frames
        BY PlaneHolds
      <3>2. \A g \in InFlight : g.map \in Nat
        BY <3>1, WireAssumption DEF Frames
      <3>3. store.begin.map \in Nat /\ store.bank.map \in Nat
        BY DEF SInv, IInv, PlaneTyped, Stores, Banks
      <3> QED
        BY <2>1, <2>2, <3>2, <3>3 DEF SInv, Past
    <2>4. CASE ses'.desc \in Generations
      <3>1. \E E \in [1..(MapModulus - 1) -> Generations] :
               E[ses'.map] = ses'.desc /\ \A n \in 1..(MapModulus - 1) : n # ses'.map => E[n] = D[n]
        <4>1. [D EXCEPT ![ses'.map] = ses'.desc] \in [1..(MapModulus - 1) -> Generations]
          BY <2>4
        <4> QED
          BY <2>2, <4>1
      <3>2. PICK E \in [1..(MapModulus - 1) -> Generations] :
              E[ses'.map] = ses'.desc /\ \A n \in 1..(MapModulus - 1) : n # ses'.map => E[n] = D[n]
        BY <3>1
      <3>3. f # Idle => E[f.map] = f.desc
        BY <3>2 DEF Retired
      <3>4. \A g \in InFlight : E[g.map] = g.desc
        <4>1. InFlight \subseteq Frames
          BY PlaneHolds
        <4>2. \A g \in InFlight : g.map \in 1..(MapModulus - 1)
          BY <4>1 DEF Frames
        <4> QED
          BY <1>2, <2>3, <3>2, <4>2 DEF NamedBy
      <3>5. DOMAIN D = 1..(MapModulus - 1) /\ DOMAIN E = 1..(MapModulus - 1)
        OBVIOUS
      <3>6. /\ ReceivingOurs => store.begin.map \in DOMAIN E /\ E[store.begin.map] = store.begin.desc
            /\ BankOurs => store.bank.map \in DOMAIN E /\ E[store.bank.map] = store.bank.desc
        BY <1>2, <2>3, <3>2, <3>5 DEF NamedBy
      <3>7. NamedBy(E)'
        <4>1. store'.begin.map = store.begin.map /\ store'.begin.desc = store.begin.desc
              /\ store'.bank.map = store.bank.map /\ store'.bank.desc = store.bank.desc
          OBVIOUS
        <4>2. \A g \in InFlight' : E[g.map] = g.desc
          BY <3>3, <3>4
        <4> QED
          BY <1>1, <3>2, <3>6, <4>1, <4>2 DEF NamedBy
      <3> QED
        BY <3>7 DEF Named
    <2>5. CASE ses'.desc \notin Generations
      <3>1. f = Idle
        BY <2>5 DEF Retired, Frames
      <3>2. ses'.phase \notin Uploading
        BY <2>1, <2>5 DEF SessionSound
      <3>3. NamedBy(D)'
        BY <1>1, <1>2, <3>1, <3>2 DEF NamedBy, Retired
      <3> QED
        BY <3>3 DEF Named
    <2> QED
      BY <2>4, <2>5
  <1> QED
    BY <1>3, <1>4 DEF Retired

\* The frame that is made is the newest.
LEMMA RetiresNewest ==
  ASSUME SInv, NoWrap, NEW msg \in {tx, None}, NEW f, Retired(msg, f), f # Idle
  PROVE  /\ \A g \in InFlight : After(g, f)
         /\ Newer(f)
  <1>1. ses.map \in 0..(MapModulus - 1) /\ ses.req.id \in Nat /\ requests \in Nat /\ MapModulus \in Nat
    BY WireAssumption DEF SInv, IInv, McuTyped, SessionSound, Sessions, PendingRequests
  <1>2. f.type = "MAP_BEGIN" => f.map = ses.map + 1
    BY <1>1 DEF Retired, NoWrap, NextMapGeneration
  <1>3. is_command(f) => ses.req # NoRequest /\ f.arg = ses.req.id
    BY DEF Retired
  <1>4. \A g \in InFlight : After(g, f)
    <2>1. InFlight \subseteq Frames
      BY PlaneHolds
    <2>2. \A g \in InFlight : g.map \in Nat /\ g.map <= ses.map /\ (is_command(g) => Older(g.arg))
      BY <2>1, WireAssumption DEF Frames, SInv, Past
    <2> QED
      BY <1>1, <1>2, <1>3, <2>2 DEF After, Older
  <1>5. is_command(f) => \A i \in DOMAIN acted : acted[i].request < f.arg
    BY <1>3 DEF SInv, Past, Older
  <1>6. store.begin.map \in Nat /\ store.bank.map \in Nat
    BY DEF SInv, IInv, PlaneTyped, Stores, Banks
  <1>7. f.type = "MAP_BEGIN" =>
          /\ ReceivingOurs /\ store.begin.desc = generation => store.begin.map < f.map
          /\ BankOurs /\ store.bank.desc = generation => store.bank.map < f.map
    BY <1>1, <1>2, <1>6 DEF SInv, Past
  <1> QED
    BY <1>4, <1>5, <1>7 DEF Newer

\* A slot in time keeps the order.
LEMMA RetiresOrder ==
  ASSUME SInv, NoWrap, NEW msg \in {tx, None}, NEW f, Retired(msg, f), Slot, ~late, late' = FALSE
  PROVE  Ordered'
  <1>1. /\ link = "up" /\ tx' = None
        /\ UNCHANGED <<link, generation, session, failed, staged, last_rx, store, status, export,
                       monitor, requests, acted>>
        /\ rx' = rx \/ (rx = None /\ rx' = ring[1] /\ ring[1] \in Frames)
    BY SlotFacts
  <1>2. /\ ring' = <<ring[2], f>> /\ ses'.boot = ses.boot
    BY DEF Retired
  <1>3. Ra' = Rb /\ Rb' = f /\ Ra = ring[1]
    BY <1>2 DEF Ra, Rb
  <1>4. /\ Seen1' = Seen1 /\ \A n, g : Blocked(n, g)' <=> Blocked(n, g)
        /\ \A g : (Newer(g)' <=> Newer(g)) /\ (AfterStaged(g)' <=> AfterStaged(g))
        /\ \A g : Old(g)' <=> Old(g)
    BY <1>1, <1>2, OrderKept
  <1>5. f # Idle => NewerThanAll(f)'
    <2> HAVE f # Idle
    <2>1. (\A g \in InFlight : After(g, f)) /\ Newer(f)
      BY RetiresNewest
    <2>2. staged # None => After(staged.frame, f)
      BY <2>1, PlaneHolds
    <2>3. rx' # None => After(rx', f)
      BY <1>1, <1>3, <2>1, PlaneHolds, NoFrames
    <2>4. AfterRx(f)' <=> (rx' # None /\ ~Blocked(Seen1', rx') => After(rx', f))
      BY <1>4 DEF AfterRx, After, is_command
    <2> QED
      BY <1>4, <2>1, <2>2, <2>3, <2>4 DEF NewerThanAll, AfterStaged
  <1>6. CASE session /\ rx' = rx
    <2>1. Seen2' = Seen2 /\ \A g : AfterRx(g)' <=> AfterRx(g)
      BY <1>4, <1>6 DEF Seen2, AfterRx, After, is_command
    <2>2. \A g : NewerThanAll(g)' <=> NewerThanAll(g)
      BY <1>4, <2>1 DEF NewerThanAll
    <2>3. Rb # Idle => Old(Rb) \/ Blocked(Seen2, Rb) \/ NewerThanAll(Rb)
      BY <1>1, <1>6 DEF SInv, Ordered
    <2>4. /\ staged # None /\ staged.allowed => Old(staged.frame) \/ Newer(staged.frame)
          /\ rx # None => Old(rx) \/ Blocked(Seen1, rx) \/ (Newer(rx) /\ AfterStaged(rx))
      BY <1>1, <1>6 DEF SInv, Ordered
    <2> QED
      BY <1>1, <1>3, <1>4, <1>5, <1>6, <2>1, <2>2, <2>3, <2>4 DEF Ordered
  <1>7. CASE session /\ rx' # rx
    <2>1. rx = None /\ rx' \in {Ra, Rb} \ {Idle}
      BY <1>1, <1>3, <1>7, NoFrames
    <2>2. /\ Old(rx)' \/ Blocked(Seen1, rx)' \/ (Newer(rx)' /\ AfterStaged(rx)')
          /\ \A g \in {Ra, Rb} \ {Idle} : Old(g)' \/ Blocked(Seen2', g) \/ NewerThanAll(g)'
      BY <1>1, <1>2, <1>7, <2>1, Publishes
    <2>3. staged # None /\ staged.allowed => Old(staged.frame) \/ Newer(staged.frame)
      BY <1>1, <1>7 DEF SInv, Ordered
    <2> QED
      BY <1>1, <1>3, <1>4, <1>5, <1>7, <2>2, <2>3 DEF Ordered
  <1> QED
    BY <1>1, <1>6, <1>7 DEF Ordered

\* A slot in time keeps SInv.
LEMMA RetiresS ==
  ASSUME SInv, NoWrap, NEW cut \in BOOLEAN, Slot, SlotOnTime(cut)
  PROVE  SInv'
  <1>1. IInv'
    BY SlotInv DEF SInv
  <1>2. /\ link = "up" /\ tx' = None
        /\ UNCHANGED <<link, generation, session, failed, staged, last_rx, store, status, export,
                       monitor, requests, acted>>
        /\ rx' = rx \/ (rx = None /\ rx' = ring[1] /\ ring[1] \in Frames)
    BY SlotFacts
  <1> DEFINE msg == Received(cut)
  <1>3. msg \in {tx, None} /\ msg \in Messages \cup {None}
    BY DEF Received, SInv, IInv, PlaneTyped
  <1>4. Retire(msg) /\ ~late /\ late' = FALSE
    BY DEF SlotOnTime
  <1> HIDE DEF msg
  <1>5. PICK f : Retired(msg, f)
    BY <1>3, <1>4, RetireStep
  <1>6. InFlight' \subseteq InFlight \cup ({f} \ {Idle})
    BY <1>2, <1>5, NoFrames DEF InFlight, Retired
  <1>7. SessionSound(ses')
    BY <1>1 DEF IInv, McuTyped
  <1>8. Runs' /\ ReceivingOurs' = ReceivingOurs /\ BankOurs' = BankOurs /\ StoreFades
    BY <1>2, <1>5, StoreStays DEF SInv, Retired
  <1>9. Named'
    BY <1>2, <1>3, <1>5, <1>6, <1>7, RetiresNamed
  <1>10. Ordered'
    BY <1>2, <1>3, <1>4, <1>5, RetiresOrder
  <1>11. Replaces'
    BY <1>2, <1>8, ReplacesFades DEF SInv
  <1>12. None.type # "DESCRIPTOR"
    BY DEF None
  <1>13. Bounded' /\ Unheard' /\ Kept'
    <2>1. held' = None /\ (f # Idle => f.desc = ses'.desc)
      BY <1>5 DEF Retired
    <2>2. \/ ses'.desc = ses.desc
          \/ \E m \in {tx, held} : m.type = "DESCRIPTOR" /\ ses'.desc = m.desc
      BY <1>3, <1>5, <1>12 DEF Retired
    <2> QED
      BY <1>2, <1>6, <1>12, <2>1, <2>2 DEF SInv, Bounded, Unheard, Kept
  <1>14. ses.map \in 0..(MapModulus - 1) /\ MapModulus \in Nat
    BY WireAssumption DEF SInv, IInv, McuTyped, SessionSound, Sessions
  <1>15. ses'.map \in {ses.map, ses.map + 1}
    BY <1>5, <1>14 DEF Retired, NoWrap, NextMapGeneration
  <1>16. Past'
    <2>1. \A n : Older(n) => Older(n)'
      BY <1>2, <1>5 DEF Older, Retired
    <2>2. f # Idle => f.map = ses'.map /\ (is_command(f) => Older(f.arg)')
      BY <1>2, <1>5 DEF SInv, Past, Older, Retired
    <2>3. \A g \in InFlight : g.map \in Nat
      BY PlaneHolds, WireAssumption DEF Frames
    <2>4. \A g \in InFlight' : g.map <= ses'.map /\ (is_command(g) => Older(g.arg)')
      BY <1>6, <1>14, <1>15, <2>1, <2>2, <2>3 DEF SInv, Past
    <2>5. store.begin.map \in Nat /\ store.bank.map \in Nat
      BY DEF SInv, IInv, PlaneTyped, Stores, Banks
    <2>6. /\ ReceivingOurs' => store'.begin.map <= ses'.map
          /\ BankOurs' => store'.bank.map <= ses'.map
      BY <1>2, <1>8, <1>14, <1>15, <2>5 DEF SInv, Past
    <2>7. ses'.phase # "SEND_BEGIN" /\ ses'.req \in {ses.req, NoRequest}
      BY <1>5 DEF Retired
    <2> QED
      BY <1>2, <2>1, <2>4, <2>6, <2>7 DEF SInv, Past, is_command
  <1>17. Emitted'
    <2>1. Ra' = Rb /\ Rb' = f
      BY <1>4, <1>5 DEF Ra, Rb, Retired
    <2>2. Rb # Idle => Rb.seq = ses.seq
      BY <1>2 DEF SInv, Emitted
    <2>3. Rb # Idle /\ f # Idle => After(Rb, f)
      BY <1>3, <1>5, RetiresNewest, PlaneHolds
    <2>4. /\ f = Idle => ses'.seq = ses.seq
          /\ f # Idle => f.seq = Following(ses.seq) /\ ses'.seq = f.seq
      BY <1>5 DEF Retired
    <2> QED
      BY <2>1, <2>2, <2>3, <2>4 DEF Emitted, After, Following, is_command
  <1> QED
    BY <1>1, <1>8, <1>9, <1>10, <1>11, <1>13, <1>16, <1>17 DEF SInv

\* A slot keeps SInv.
LEMMA SlotS ==
  ASSUME SInv, NoWrap, Slot
  PROVE  SInv'
  <1>1. SlotOnTime(FALSE) \/ SlotOnTime(TRUE) \/ SlotLate \/ SlotStalled
    BY DEF Slot
  <1> QED
    BY <1>1, RetiresS, RotatesS

-----------------------------------------------------------------------------
\* The link starts in SInv.
THEOREM InitSInv == Init => SInv
  <1> SUFFICES ASSUME Init PROVE SInv
    OBVIOUS
  <1>1. IInv
    BY InitIInv
  <1>2. /\ link = "off" /\ ring = <<Idle, Idle>> /\ held = None /\ acted = <<>> /\ requests = 0
        /\ session = FALSE /\ failed = FALSE /\ generation = 1 /\ rx = None /\ staged = None
        /\ status = None /\ monitor = None /\ tx = None /\ export = [desc |-> 1, next |-> 0]
        /\ store = StoreInit /\ ses = SessionInit(0)
    BY DEF Init, PlaneInit, IdleRing
  <1>3. /\ ses.phase = "WAIT_LINK" /\ ses.desc = 0 /\ ses.req = NoRequest /\ ses.boot = 0
    BY <1>2 DEF SessionInit
  <1>4. store.state = "IDLE" /\ store.entries = <<>> /\ store.bank.entries = <<>>
    BY <1>2 DEF StoreInit, NoBank
  <1>5. InFlight = {} /\ ~ReceivingOurs /\ ~BankOurs /\ Runs
    BY <1>2, <1>4 DEF InFlight, ReceivingOurs, BankOurs, Runs
  <1>6. Bounded /\ Unheard /\ Kept
    BY <1>2, <1>3, <1>4, <1>5 DEF Bounded, Unheard, Kept, None
  <1>7. Past
    BY <1>2, <1>3, <1>5 DEF Past
  <1>8. Named
    <2>1. 1 \in Generations
      BY PlaneAssumption DEF Generations
    <2>2. [n \in 1..(MapModulus - 1) |-> 1] \in [1..(MapModulus - 1) -> Generations]
      BY <2>1
    <2>3. ses.phase \notin Uploading
      BY <1>3 DEF Uploading, Sending
    <2>4. NamedBy([n \in 1..(MapModulus - 1) |-> 1])
      BY <1>5, <2>3 DEF NamedBy
    <2> QED
      BY <2>2, <2>4 DEF Named
  <1>9. Emitted /\ Ordered /\ Replaces
    BY <1>2, <1>5 DEF Emitted, Ordered, Replaces
  <1> QED
    BY <1>1, <1>5, <1>6, <1>7, <1>8, <1>9 DEF SInv

\* The engine commits a command, or drops it.
LEMMA CommandS ==
  ASSUME SInv, EngineCommits \/ (CommandLeaves /\ McuUnchanged)
  PROVE  SInv'
  <1>1. /\ staged # None /\ FrameLeaves /\ store' = store
        /\ staged.allowed /\ is_command(staged.frame)
        /\ UNCHANGED <<link_ready, deviceVars, rx, txVars, mcuVars, requests>>
    BY DEF EngineCommits, CommandLeaves, CommandWaits, McuUnchanged, historyVars
  <1>2. \/ acted' = acted
        \/ acted' = Append(acted, [request |-> staged.frame.arg, upload |-> UploadOf(staged.frame)])
    BY DEF EngineCommits, McuUnchanged, historyVars
  <1> QED
    BY <1>1, <1>2, LeavesS

\* Every step keeps SInv until the generations are used up.
THEOREM NextSInv == SInv /\ NoWrap /\ [Next]_vars => SInv'
  <1> SUFFICES ASSUME SInv, NoWrap, [Next]_vars PROVE SInv'
    OBVIOUS
  <1>1. CASE Slot
    BY <1>1, SlotS
  <1>2. CASE PlaneWork /\ McuUnchanged
    <2>1. UNCHANGED <<mcuVars, requests, acted>>
      BY <1>2 DEF McuUnchanged, historyVars
    <2>2. CASE Stage
      BY <2>1, <2>2, StageS
    <2>3. CASE Accept
      <3>1. /\ staged # None /\ FrameLeaves
            /\ store' = store \/ (staged.allowed /\ store' = MapMessage(staged.frame))
            /\ UNCHANGED <<link_ready, deviceVars, rx, txVars>>
        BY <2>3 DEF Accept
      <3> QED
        BY <2>1, <3>1, LeavesS
    <2>4. CASE Validate
      BY <2>1, <2>4, ValidateS
    <2>5. CASE ExportStart \/ Fill
      BY <2>1, <2>5, SourcesS
    <2> QED
      BY <1>2, <2>2, <2>3, <2>4, <2>5 DEF PlaneWork
  <1>3. CASE EngineCommits \/ (CommandLeaves /\ McuUnchanged)
    BY <1>3, CommandS
  <1>4. CASE Device
    BY <1>4, DeviceS
  <1>5. CASE \E i \in Interfaces(generation) : Report(i) /\ McuUnchanged
    BY <1>5, SourcesS DEF McuUnchanged, historyVars
  <1>6. CASE Service
    BY <1>6, ServiceS
  <1>7. CASE Offer
    BY <1>7, OfferS
  <1>8. CASE \E kind \in Kinds : Request(kind)
    BY <1>8, RequestS
  <1>9. CASE ReadyLow
    BY <1>9, ReadyLowS
  <1>10. CASE SlotLow
    BY <1>10, SlotLowS
  <1>11. CASE RequestsOff
    BY <1>11, RequestsOffS
  <1>12. CASE ReadyHigh
    BY <1>12, ReadyHighS
  <1>13. CASE Reset
    BY <1>13, ResetS
  <1>14. CASE UNCHANGED vars
    <2>1. IInv'
      BY NextIInv DEF SInv
    <2>2. /\ ses' = ses
          /\ UNCHANGED <<planeVars, link, ring, late, held, acted, requests>>
      BY <1>14 DEF vars, mcuVars, historyVars
    <2>3. SessionFades
      BY <2>2 DEF SInv, Past, SessionFades
    <2> QED
      BY <2>1, <2>2, <2>3, SessionStepS
  <1> QED
    BY <1>1, <1>2, <1>3, <1>4, <1>5, <1>6, <1>7, <1>8, <1>9, <1>10, <1>11, <1>12, <1>13, <1>14
    DEF Next

\* SInv is an invariant of the link until the generations are used up: what the
\* plane has yet to do is new, or will be dropped.
THEOREM ServiceInvariant == Spec /\ []NoWrap => []SInv
  BY InitSInv, NextSInv, PTL DEF Spec

-----------------------------------------------------------------------------
\* The map under validation is not the bank's over again.
Differs ==
  /\ store.state = "VALIDATE" /\ store.matches
  /\ store.entries # <<>> /\ store.bank.entries # <<>>
  /\ store.entries[1].boot = store.bank.entries[1].boot
  => store.begin.map # store.bank.map \/ store.begin.desc # store.bank.desc

\* A step leaves the store alone, invalidates it, gives it a message, or ends
\* its validation.
LEMMA StoreSteps ==
  ASSUME [Next]_vars
  PROVE  \/ store' = store
         \/ Invalidated
         \/ /\ staged # None /\ staged.allowed /\ store' = MapMessage(staged.frame)
            /\ generation' = generation /\ mcuVars' = mcuVars
         \/ Validate
  BY DEF Next, vars, planeVars, Slot, PlaneWork, Stage, Accept, ExportStart, Fill, EngineCommits,
         CommandLeaves, Device, PollFailure, Detach, Enumerated, Report, Service, Offer, Request,
         ReadyLow, SlotLow, RequestsOff, ReadyHigh, Reset, LinkFalls, LinkRises, McuUnchanged,
         rxVars, deviceVars

\* A commit that matches is of another upload than the bank's.
LEMMA CommitDiffers ==
  ASSUME SInv, staged # None, store.state = "RECEIVE", store' = StoreCommit(store, staged.frame, generation)
  PROVE  Differs'
  <1>1. store \in Stores /\ staged.frame \in Frames
    BY DEF SInv, IInv, PlaneTyped
  <1>2. /\ store'.begin = store.begin /\ store'.entries = store.entries /\ store'.bank = store.bank
        /\ store'.matches = CommitMatches(store, staged.frame, generation)
    BY <1>1, CommitKeeps
  <1>3. ReceivingOurs /\ ~store.latched
    BY DEF ReceivingOurs, SInv, IInv, Forgotten
  <1>4. store.entries # <<>> => store.entries[1].boot = ses.boot
    BY <1>1, <1>3 DEF SInv, IInv, ReceivingSound, Stores
  <1>5. store.begin.map \in Nat /\ store.bank.map \in Nat
    BY <1>1 DEF Stores, Banks
  <1>6. store'.matches => store.begin.desc = generation
    BY <1>2 DEF CommitMatches
  <1>7. BankOurs /\ store.begin.desc = generation /\ store.bank.desc = generation =>
          store.bank.map < store.begin.map
    BY <1>3 DEF SInv, Replaces
  <1> QED
    BY <1>2, <1>4, <1>5, <1>6, <1>7 DEF Differs, BankOurs

\* Every step keeps Differs.
THEOREM NextDiffers == SInv /\ Differs /\ [Next]_vars => Differs'
  <1> SUFFICES ASSUME SInv, Differs, [Next]_vars PROVE Differs'
    OBVIOUS
  <1>1. store \in Stores
    BY DEF SInv, IInv, PlaneTyped
  <1>2. CASE store' = store
    BY <1>2 DEF Differs
  <1>3. CASE Invalidated
    <2>1. store' = StoreInvalidate(store)
      BY <1>3 DEF Invalidated
    <2>2. /\ store'.state = "VALIDATE" =>
               /\ store.state = "VALIDATE" /\ store'.begin = store.begin
               /\ store'.entries = store.entries /\ store'.matches = store.matches
          /\ store'.bank.desc = store.bank.desc /\ store'.bank.map = store.bank.map
          /\ store'.bank.entries = store.bank.entries
      BY <1>1, <2>1, InvalidateKeeps
    <2> QED
      BY <2>2 DEF Differs
  <1>4. CASE staged # None /\ store' = MapMessage(staged.frame)
    <2>1. staged.frame \in Frames
      BY <1>4 DEF SInv, IInv, PlaneTyped
    <2>2. CASE store' = StoreBegin(store, staged.frame)
      BY <1>1, <2>1, <2>2, BeginKeeps DEF Differs
    <2>3. CASE store.state = "RECEIVE" /\ store' = StoreEntry(store, staged.frame)
      BY <1>1, <2>1, <2>3, EntryKeeps DEF Differs
    <2>4. CASE store.state = "RECEIVE" /\ store' = StoreCommit(store, staged.frame, generation)
      BY <1>4, <2>4, CommitDiffers
    <2> QED
      BY <1>2, <1>4, <2>2, <2>3, <2>4 DEF MapMessage
  <1>5. CASE Validate
    BY <1>1, <1>5, EndKeeps DEF Validate, Differs
  <1> QED
    BY <1>2, <1>3, <1>4, <1>5, StoreSteps

-----------------------------------------------------------------------------
\* What InjectionService sees of the link.
ServiceDevice == IF session THEN generation ELSE 0
ServiceUpload == IF store.bank.entries = <<>> THEN NoUpload ELSE UploadOf(store.bank.entries[1])
ServiceForce == active_valid(store, generation) /\ ~invalidate

\* The valid bit of the bank decides: it falls with the link and the session.
LEMMA ForceIsValid ==
  ASSUME IInv
  PROVE  ServiceForce = store.bank.valid
  <1>1. store.bank.valid \in BOOLEAN
    BY DEF IInv, PlaneTyped, Stores, Banks
  <1>2. invalidate \/ store.latched => ~store.bank.valid
    BY DEF IInv, Forgotten
  <1>3. store.bank.valid => store.bank.desc = generation
    BY DEF IInv, BankSound
  <1> QED
    BY <1>1, <1>2, <1>3 DEF ServiceForce, active_valid

\* The same after a step.
LEMMA ForceIsValidNext ==
  ASSUME IInv'
  PROVE  ServiceForce' = store'.bank.valid
  <1>1. store'.bank.valid \in BOOLEAN
    BY DEF IInv, PlaneTyped, Stores, Banks
  <1>2. invalidate' \/ store'.latched => ~store'.bank.valid
    BY DEF IInv, Forgotten
  <1>3. store'.bank.valid => store'.bank.desc = generation'
    BY DEF IInv, BankSound
  <1> QED
    BY <1>1, <1>2, <1>3 DEF ServiceForce, active_valid

\* A step that leaves the bank, the device, the requests and the commands alone is
\* none of the service.
LEMMA ServiceStutters ==
  ASSUME IInv, IInv', store'.bank = store.bank, UNCHANGED <<session, generation, requests, acted>>
  PROVE  UNCHANGED Promised!vars
  <1>1. ServiceForce' = ServiceForce
    BY ForceIsValid, ForceIsValidNext
  <1>2. ServiceDevice' = ServiceDevice /\ ServiceUpload' = ServiceUpload
    BY DEF ServiceDevice, ServiceUpload, UploadOf, NoUpload
  <1> QED
    BY <1>1, <1>2 DEF Promised!vars, ServiceDevice, ServiceUpload, ServiceForce

\* The link falls: what is in force is revoked.
LEMMA ServiceRevokes ==
  ASSUME IInv, IInv', Invalidated, UNCHANGED <<session, generation, requests, acted>>
  PROVE  [Promised!Next]_(Promised!vars)
  <1>1. store'.bank.valid = FALSE /\ store'.bank.entries = store.bank.entries
    BY InvalidateKeeps DEF Invalidated, IInv, PlaneTyped
  <1>2. ServiceForce' = FALSE
    BY <1>1, ForceIsValidNext
  <1>3. ServiceDevice' = ServiceDevice /\ ServiceUpload' = ServiceUpload
    BY <1>1 DEF ServiceDevice, ServiceUpload, UploadOf, NoUpload
  <1>4. CASE ServiceForce
    BY <1>2, <1>3, <1>4
    DEF Promised!Next, Promised!Revoke, ServiceDevice, ServiceUpload, ServiceForce
  <1>5. CASE ~ServiceForce
    <2>1. ServiceForce = FALSE
      BY <1>5 DEF ServiceForce
    <2> QED
      BY <1>2, <1>3, <2>1 DEF Promised!vars, ServiceDevice, ServiceUpload, ServiceForce
  <1> QED
    BY <1>4, <1>5

\* The device goes, or its poller fails.
LEMMA ServiceDetaches ==
  ASSUME IInv, IInv', Invalidated, session' = FALSE, UNCHANGED <<requests, acted>>
  PROVE  [Promised!Next]_(Promised!vars)
  <1>1. store'.bank.valid = FALSE /\ store'.bank.entries = store.bank.entries
    BY InvalidateKeeps DEF Invalidated, IInv, PlaneTyped
  <1>2. ServiceForce' = FALSE /\ ServiceDevice' = 0 /\ ServiceUpload' = ServiceUpload
    BY <1>1, ForceIsValidNext DEF ServiceDevice, ServiceUpload, UploadOf, NoUpload
  <1>3. generation # 0 /\ session \in BOOLEAN
    BY PlaneAssumption DEF IInv, PlaneTyped, Generations
  <1>4. CASE session
    <2>1. ServiceDevice # 0
      BY <1>3, <1>4 DEF ServiceDevice
    <2> QED
      BY <1>2, <2>1
      DEF Promised!Next, Promised!Detach, ServiceDevice, ServiceUpload, ServiceForce
  <1>5. CASE ~session
    <2>1. ServiceDevice = 0 /\ ServiceForce = FALSE
      BY <1>5 DEF ServiceDevice, ServiceForce, invalidate
    <2> QED
      BY <1>2, <2>1 DEF Promised!vars, ServiceDevice, ServiceUpload, ServiceForce
  <1> QED
    BY <1>3, <1>4, <1>5

\* An enumeration is an Attach: no map is valid before it.
LEMMA ServiceAttaches ==
  ASSUME IInv, IInv', Enumerated, UNCHANGED <<requests, acted>>
  PROVE  [Promised!Next]_(Promised!vars)
  <1>1. store' = store /\ generation' = generation /\ ~session /\ session' = TRUE
    BY DEF Enumerated, rxVars
  <1>2. ServiceForce' = ServiceForce /\ ServiceUpload' = ServiceUpload
    BY <1>1, ForceIsValid, ForceIsValidNext DEF ServiceUpload, UploadOf, NoUpload
  <1>3. generation \in Nat \ {0}
    BY PlaneAssumption DEF IInv, PlaneTyped, Generations
  <1>4. ServiceDevice = 0 /\ ServiceDevice' \in Nat \ {0}
    BY <1>1, <1>3 DEF ServiceDevice
  <1> QED
    BY <1>2, <1>4
    DEF Promised!Next, Promised!Attach, ServiceDevice, ServiceUpload, ServiceForce

\* A request is an Ask.
LEMMA ServiceAsks ==
  ASSUME IInv, IInv', NEW kind, Request(kind)
  PROVE  [Promised!Next]_(Promised!vars)
  <1>1. /\ requests' = requests + 1 /\ acted' = acted
        /\ UNCHANGED <<session, generation, store>>
    BY DEF Request, planeVars
  <1>2. ServiceForce' = ServiceForce /\ ServiceUpload' = ServiceUpload /\ ServiceDevice' = ServiceDevice
    BY <1>1, ForceIsValid, ForceIsValidNext DEF ServiceDevice, ServiceUpload, UploadOf, NoUpload
  <1> QED
    BY <1>1, <1>2 DEF Promised!Next, Promised!Ask, ServiceDevice, ServiceUpload, ServiceForce

\* The end of a validation: an upload that is not the one before it.
LEMMA ServiceReceives ==
  ASSUME IInv, IInv', Differs, Validate, UNCHANGED <<requests, acted>>
  PROVE  [Promised!Next]_(Promised!vars)
  <1>1. /\ store \in Stores /\ store' \in Stores /\ store.state = "VALIDATE"
        /\ store' = StoreEnd(store, generation)
        /\ UNCHANGED <<link_ready, session, failed, generation>>
    BY DEF IInv, PlaneTyped, Validate, deviceVars
  <1>2. CASE ~Accepted(store, generation)
    <2>1. store'.bank = store.bank
      BY <1>1, <1>2, EndKeeps
    <2> QED
      BY <1>1, <2>1, ServiceStutters
  <1>3. CASE Accepted(store, generation)
    <2> DEFINE e == store.entries[1]
               b == store.bank.entries[1]
    <2>1. /\ store'.bank.entries = store.entries /\ store'.bank.valid = ~store.latched
          /\ store.matches /\ store.begin.desc = generation /\ EntriesMatch(store)
      <3>1. store'.bank = Flipped(store)
        BY <1>1, <1>3, EndKeeps
      <3>2. Flipped(store).entries = store.entries /\ Flipped(store).valid = ~store.latched
        BY DEF Flipped
      <3>3. store.matches /\ store.begin.desc = generation /\ EntriesMatch(store)
        BY <1>3 DEF Accepted
      <3> QED
        BY <3>1, <3>2, <3>3
    <2>2. EntryCount \in Nat \ {0} /\ Len(store.entries) = EntryCount
      BY <1>1, <2>1, SessionAssumption DEF IInv, ReceivingSound
    <2>3. store.entries \in Seq(Frames) /\ store.entries # <<>> /\ 1 \in 1..Len(store.entries)
      BY <1>1, <2>2 DEF Stores
    <2>4. e \in Frames /\ e.desc = generation /\ e.map = store.begin.map
      BY <2>1, <2>3 DEF EntriesMatch
    <2>5. e.map \in 0..(MapModulus - 1) /\ e.map # 0 /\ e.desc \in DOMAIN Devices /\ e.boot \in Nat
      BY <2>4, WireAssumption DEF Frames, Generations
    <2>6. store.bank.entries # <<>> => b.map = store.bank.map /\ b.desc = store.bank.desc
      BY <1>1, SMTT(30) DEF IInv, BankSound, Stores, Banks
    <2>7. store.bank.entries # <<>> => e.boot # b.boot \/ e.map # b.map \/ e.desc # b.desc
      BY <1>1, <2>1, <2>3, <2>4, <2>6 DEF Differs
    <2> HIDE DEF e, b
    <2>8. ServiceUpload' = UploadOf(e)
      BY <2>1, <2>3 DEF ServiceUpload, UploadOf, e
    <2>9. ServiceUpload = NoUpload \/ (store.bank.entries # <<>> /\ ServiceUpload = UploadOf(b))
      BY DEF ServiceUpload, b
    <2>10. UploadOf(e) # NoUpload
      BY <2>5 DEF UploadOf, NoUpload
    <2>11. store.bank.entries # <<>> => UploadOf(e) # UploadOf(b)
      BY <2>7 DEF UploadOf
    <2>12. UploadOf(e) \in [map : 0..MapModulus - 1, desc : DOMAIN Devices, boot : Nat]
      BY <2>5 DEF UploadOf
    <2>13. ServiceUpload' \in [map : 0..MapModulus - 1, desc : DOMAIN Devices, boot : Nat] \ {ServiceUpload}
      BY <2>8, <2>9, <2>10, <2>11, <2>12
    <2>14. ServiceForce' \in {FALSE, ServiceDevice # 0 /\ ServiceUpload'.desc = ServiceDevice}
      <3>1. ServiceForce' = ~store.latched /\ store.latched \in BOOLEAN
        BY <1>1, <2>1, ForceIsValidNext DEF Stores
      <3>2. ServiceUpload'.desc = generation /\ generation # 0
        BY <2>4, <2>8, PlaneAssumption DEF UploadOf, IInv, PlaneTyped, Generations
      <3>3. ~store.latched => ServiceDevice = generation
        BY <1>1 DEF IInv, Forgotten, ServiceDevice, invalidate
      <3> QED
        BY <3>1, <3>2, <3>3
    <2>15. ServiceDevice' = ServiceDevice /\ UNCHANGED <<requests, acted>>
      BY <1>1 DEF ServiceDevice
    <2> QED
      BY <2>13, <2>14, <2>15
      DEF Promised!Next, Promised!Receive, ServiceDevice, ServiceUpload, ServiceForce
  <1> QED
    BY <1>2, <1>3

\* The engine commits a command: its generation names the device attached, so
\* that it is none of an earlier device, and it is new.
LEMMA ServiceActs ==
  ASSUME SInv, IInv', EngineCommits
  PROVE  [Promised!Next]_(Promised!vars)
  <1> DEFINE f == staged.frame
             e == store.bank.entries[1]
  <1>1. /\ staged # None /\ staged.allowed /\ is_command(f) /\ store.bank.valid
        /\ store.bank.desc = generation /\ f.map = store.bank.map
        /\ UNCHANGED <<session, generation, store, link_ready, requests>>
        /\ acted' = Append(acted, [request |-> f.arg, upload |-> UploadOf(f)])
    BY DEF EngineCommits, CommandLeaves, CommandWaits, command_fresh, active_valid, deviceVars
  <1>2. link = "up" /\ session /\ f \in InFlight /\ f \in Frames
    BY <1>1, PlaneHolds
  <1>3. f.boot = ses.boot
    BY <1>1, StagedFrame DEF SInv
  <1>4. /\ store.bank.entries \in Seq(Frames) /\ Len(store.bank.entries) = EntryCount
        /\ EntryCount \in Nat \ {0}
    BY <1>1, SessionAssumption DEF SInv, IInv, PlaneTyped, Stores, Banks, BankSound
  <1>5. /\ store.bank.entries # <<>>
        /\ e.map = store.bank.map /\ e.desc = generation /\ e.boot = ses.boot
    BY <1>1, <1>4 DEF SInv, IInv, BankSound
  <1> HIDE DEF e
  <1>6. f.desc = generation
    <2>1. PICK D \in [1..(MapModulus - 1) -> Generations] : NamedBy(D)
      BY DEF SInv, Named
    <2>2. BankOurs
      BY <1>5 DEF BankOurs, e
    <2> QED
      BY <1>1, <1>2, <2>1, <2>2 DEF NamedBy
  <1>7. ServiceForce /\ ServiceUpload = UploadOf(f)
    <2>1. UploadOf(e) = UploadOf(f)
      BY <1>1, <1>3, <1>5, <1>6 DEF UploadOf
    <2> QED
      BY <1>1, <1>5, <2>1, ForceIsValid DEF SInv, ServiceUpload, e
  <1>8. f.arg \in 1..requests /\ \A i \in DOMAIN acted : acted[i].request < f.arg
    <2>1. Newer(f)
      BY <1>1, <1>2, <1>6 DEF SInv, Ordered, Old
    <2> QED
      BY <1>1, <1>2, <2>1 DEF Newer, SInv, Past, Older
  <1>9. ServiceForce' = ServiceForce /\ ServiceUpload' = ServiceUpload /\ ServiceDevice' = ServiceDevice
    BY <1>1, ForceIsValid, ForceIsValidNext
    DEF SInv, ServiceDevice, ServiceUpload, UploadOf, NoUpload
  <1> HIDE DEF f
  <1>10. \E n \in 1..requests :
            /\ \A i \in DOMAIN acted : acted[i].request < n
            /\ acted' = Append(acted, [request |-> n, upload |-> ServiceUpload])
    BY <1>1, <1>7, <1>8
  <1> QED
    BY <1>1, <1>7, <1>9, <1>10
    DEF Promised!Next, Promised!Act, ServiceDevice, ServiceUpload, ServiceForce

-----------------------------------------------------------------------------
\* The link starts as the service does.
THEOREM InitService == Init => Promised!Init /\ Differs
  <1> SUFFICES ASSUME Init PROVE Promised!Init /\ Differs
    OBVIOUS
  <1>1. /\ session = FALSE /\ requests = 0 /\ acted = <<>>
        /\ store.state = "IDLE" /\ store.bank.entries = <<>>
    BY DEF Init, PlaneInit, StoreInit, NoBank
  <1>2. ServiceDevice = 0 /\ ServiceUpload = NoUpload /\ ServiceForce = FALSE
    BY <1>1 DEF ServiceDevice, ServiceUpload, ServiceForce, invalidate
  <1> QED
    BY <1>1, <1>2 DEF Promised!Init, Differs, ServiceDevice, ServiceUpload, ServiceForce

\* Every step of the link is one of the service, or none.
THEOREM NextService ==
  SInv /\ SInv' /\ Differs /\ [Next]_vars => [Promised!Next]_(Promised!vars)
  <1> SUFFICES ASSUME SInv, SInv', Differs, [Next]_vars PROVE [Promised!Next]_(Promised!vars)
    OBVIOUS
  <1>1. IInv /\ IInv'
    BY DEF SInv
  <1>2. CASE /\ UNCHANGED <<session, generation, requests, acted>>
             /\ \/ store' = store
                \/ staged # None /\ ses' = ses /\ store' = MapMessage(staged.frame)
    <2>1. store'.bank = store.bank
      BY <1>2, MessageStep
    <2> QED
      BY <1>1, <1>2, <2>1, ServiceStutters
  <1>3. CASE Slot
    BY <1>2, <1>3, SlotFacts
  <1>4. CASE PlaneWork /\ McuUnchanged
    <2>1. ses' = ses /\ UNCHANGED <<requests, acted>>
      BY <1>4 DEF McuUnchanged, mcuVars, historyVars
    <2>2. CASE Accept
      BY <1>2, <2>1, <2>2 DEF Accept, deviceVars
    <2>3. CASE Validate
      BY <1>1, <2>1, <2>3, ServiceReceives
    <2>4. CASE Stage \/ ExportStart \/ Fill
      BY <1>2, <2>1, <2>4 DEF Stage, ExportStart, Fill, deviceVars, rxVars
    <2> QED
      BY <1>4, <2>2, <2>3, <2>4 DEF PlaneWork
  <1>5. CASE EngineCommits
    BY <1>1, <1>5, ServiceActs
  <1>6. CASE Device
    <2>1. UNCHANGED <<requests, acted>>
      BY <1>6 DEF Device, Fault, McuUnchanged, historyVars
    <2>2. CASE PollFailure \/ Detach
      BY <1>1, <2>1, <2>2, ServiceDetaches DEF PollFailure, Detach
    <2>3. CASE Enumerated
      BY <1>1, <2>1, <2>3, ServiceAttaches
    <2> QED
      BY <1>6, <2>2, <2>3 DEF Device
  <1>7. CASE \E kind \in Kinds : Request(kind)
    BY <1>1, <1>7, ServiceAsks
  <1>8. CASE ReadyLow \/ Reset
    <2>1. Invalidated /\ UNCHANGED <<session, generation, requests, acted>>
      BY <1>8 DEF ReadyLow, Reset, LinkFalls, Fault, deviceVars
    <2> QED
      BY <1>1, <2>1, ServiceRevokes
  <1>9. CASE CommandLeaves /\ McuUnchanged
    BY <1>2, <1>9 DEF CommandLeaves, McuUnchanged, historyVars, deviceVars
  <1>10. CASE \E i \in Interfaces(generation) : Report(i) /\ McuUnchanged
    BY <1>2, <1>10 DEF Report, McuUnchanged, historyVars, deviceVars, rxVars
  <1>11. CASE Service \/ Offer \/ SlotLow \/ RequestsOff \/ ReadyHigh \/ UNCHANGED vars
    BY <1>2, <1>11
    DEF Service, Offer, SlotLow, RequestsOff, ReadyHigh, LinkRises, vars, planeVars, historyVars,
        deviceVars, rxVars
  <1> QED
    BY <1>3, <1>4, <1>5, <1>6, <1>7, <1>8, <1>9, <1>10, <1>11 DEF Next

\* Over losses, duplicates, late interrupts, recoveries and resets, a command is
\* committed only under the upload it cites, of the run of the firmware that
\* made it, for the device attached, in the order of the requests and once
\* (gateware.py: command_fresh, sequence_class_allowed), and a map that was
\* invalidated is not active again, for any devices, numbers of requests and
\* faults, and moduli: as long as no run of the firmware makes more uploads
\* than it has generations for.
THEOREM LinkImplementsService == Spec /\ []NoWrap => ImplementsService
  <1>1. Spec /\ []NoWrap => []SInv
    BY ServiceInvariant
  <1>2. Spec /\ []SInv => []Differs
    BY InitService, NextDiffers, PTL DEF Spec
  <1>3. Spec /\ []SInv /\ []Differs => Promised!Init /\ [][Promised!Next]_(Promised!vars)
    BY InitService, NextService, PTL DEF Spec
  <1> QED
    BY <1>1, <1>2, <1>3, PTL DEF ImplementsService, Promised!Spec

-----------------------------------------------------------------------------
(***************************************************************************)
(* A session that injects holds the map that is active.                    *)
(*                                                                         *)
(* The session hears of the plane a slot late and through one message at a *)
(* time; what it sends takes two slots.  The invariant says what may be on *)
(* the way in each phase of an upload: an answer to an earlier upload is   *)
(* gone before this one's MAP_COMMIT is sent, and the frames of an earlier *)
(* one have left the plane before this one is answered.  It holds also     *)
(* when generations come round.                                            *)
(***************************************************************************)

\* What the plane has of the MCU's frames.
Inside == ({rx} \cup (IF staged = None THEN {} ELSE {staged.frame})) \ {None}

\* MAP_BEGIN is the last frame made; then entries are; then the map is complete.
Begun == ses.phase = "SEND_ENTRY" /\ ses.cursor = 0
Listing == ses.phase \in {"SEND_ENTRY", "SEND_COMMIT"} /\ ses.cursor # 0
Proposed == ses.phase \in {"WAIT_COMMIT", "INJECTING"}
Idling == ses.phase \in {"WAIT_DESCRIPTOR", "NO_MOUSE", "WAIT_REPORT"}

\* A link that falls takes the session to WAIT_LINK, or it does not know.
Told ==
  /\ ~blind /\ link # "up" => ses.phase = "WAIT_LINK"
  /\ held # None => ses.phase = "WAIT_LINK"
  /\ ses.phase = "WAIT_LINK" /\ link = "up" => ring = IdleRing /\ Inside = {}
  /\ ses.phase # "SEND_BEGIN"
  /\ ses.phase = "SEND_COMMIT" => ses.cursor # 0

Sources ==
  /\ status # None => status.type \in {"ACCEPTED", "REJECTED"}
  /\ monitor # None => monitor.type = "REPORT"
  /\ export.next # 0 => export.desc = generation

\* The session hears of devices in their order, and of none before it is
\* enumerated.
Heard ==
  /\ ses.desc <= generation
  /\ \A m \in {tx, held} :
       m.type = "DESCRIPTOR" =>
         m.desc <= generation /\ (ses.desc = generation => m.desc = generation)
  /\ ~session /\ ~failed =>
       /\ ses.desc # generation /\ export.next = 0
       /\ \A m \in {tx, held} : m.type = "DESCRIPTOR" => m.desc # generation

\* No frame and no map is of a later device than the one attached.
NotAhead ==
  /\ \A f \in Inside \cup {Ra, Rb} : f.desc <= generation
  /\ store.state # "IDLE" => store.begin.desc <= generation

\* No map of the device attached is active, or will be by what the plane has.
Unmapped ==
  /\ ~store.bank.valid
  /\ store.state # "IDLE" => store.begin.desc # generation \/ store.latched
  /\ \A f \in Inside \cup {Ra} : f.desc # generation

\* None is made for a device the session has not heard of.
Foreign == ses.desc # generation => Unmapped /\ Rb.desc # generation

\* Commands are left only from before the session lost the device.
Spent ==
  /\ link = "up" /\ ses.phase # "INJECTING"
  /\ \E f \in Inside \cup {Ra, Rb} : is_command(f)
  => Unmapped /\ (Begun \/ Idling)

\* The two frames made last.
BanksFollow ==
  /\ Idling => Rb = Idle
  /\ Begun => Ra = Idle /\ (Rb = Idle \/ (Rb.type = "MAP_BEGIN" /\ Rb.map = ses.map))
  /\ Listing => \A f \in {Ra, Rb} \ {Idle} :
                   f.type \in {"MAP_BEGIN", "MAP_ENTRY"} /\ f.map = ses.map
  /\ Proposed => \A f \in {Ra, Rb} \ {Idle} : f.map = ses.map

\* While entries are sent nothing is validated, and the answer to an earlier
\* upload leaves; once the map is complete the plane has nothing of another.
PlaneFollows ==
  /\ Listing =>
       /\ \A f \in Inside : f.type # "MAP_COMMIT"
       /\ store.state # "VALIDATE"
       /\ status = None \/ (ses.cursor = 1 /\ tx = None)
  /\ Proposed =>
       /\ \A f \in Inside : f.map = ses.map
       /\ store.state = "VALIDATE" /\ store.matches => store.begin.map = ses.map

\* The session is with the plane, and knows of every recovery.
Seen == link = "up" /\ session /\ ses.desc = generation /\ ~blind /\ ses.phase # "WAIT_LINK"

\* It was told that its upload is active, or will be by the message on its way.
Promoted ==
  \/ ses.phase = "INJECTING"
  \/ ses.phase = "WAIT_COMMIT" /\ \E m \in {status, tx} : m.type = "ACCEPTED" /\ m.arg = ses.map
Agreement ==
  Seen =>
    /\ store.state = "VALIDATE" => ~store.latched
    /\ Promoted => store.bank.valid /\ store.bank.map = ses.map

AInv ==
  /\ Told /\ Sources /\ Heard /\ NotAhead /\ Foreign /\ Spent
  /\ BanksFollow /\ PlaneFollows /\ Agreement

-----------------------------------------------------------------------------
\* The fields that order devices are numbers, and a device has one from 1.
LEMMA DeviceNumbers ==
  ASSUME IInv
  PROVE  /\ generation \in Nat \ {0} /\ ses.desc \in Nat
         /\ {Ra, Rb} \subseteq Frames \cup {Idle} /\ Inside \subseteq Frames
         /\ Idle.desc = 0 /\ ~is_command(Idle)
         /\ \A f \in Frames : f.desc \in Nat \ {0}
  <1>1. Generations \subseteq Nat \ {0}
    BY PlaneAssumption DEF Generations
  <1>2. generation \in Generations /\ ses.desc \in Generations \cup {0}
    BY DEF IInv, McuTyped, PlaneTyped, SessionSound, Sessions
  <1>3. {Ra, Rb} \subseteq Frames \cup {Idle} /\ Inside \subseteq Frames
    BY DEF IInv, McuTyped, PlaneTyped, Ra, Rb, Inside
  <1>4. Idle.desc = 0 /\ ~is_command(Idle)
    BY DEF Idle, Frame, is_command, Commands
  <1>5. \A f \in Frames : f.desc \in Generations
    BY DEF Frames
  <1>6. generation \in Nat \ {0} /\ ses.desc \in Nat
    <2>1. ASSUME NEW g \in Generations PROVE g \in Nat \ {0}
      BY <1>1
    <2>2. generation \in Nat \ {0}
      BY <1>2, <2>1
    <2>3. ses.desc \in Nat \ {0} \/ ses.desc = 0
      BY <1>2, <2>1
    <2> QED
      BY <2>2, <2>3
  <1>7. \A f \in Frames : f.desc \in Nat \ {0}
    BY <1>1, <1>5
  <1> QED
    BY <1>3, <1>4, <1>6, <1>7

\* The plane holds nothing after an invalidation, and its store promises nothing.
LEMMA InvalidatedA ==
  ASSUME IInv, Invalidated
  PROVE  /\ Inside' = {} /\ ~store'.bank.valid /\ store'.latched
         /\ store'.state # "IDLE" =>
              /\ store.state = "VALIDATE" /\ store'.state = "VALIDATE"
              /\ store'.begin = store.begin /\ store'.matches = store.matches
  <1>1. store \in Stores /\ store' = StoreInvalidate(store)
    BY DEF IInv, PlaneTyped, Invalidated
  <1>2. store' \in Stores
    BY <1>1, StoreInvalidateType
  <1>3. Inside' = {}
    BY DEF Invalidated, Inside
  <1> QED
    BY <1>1, <1>2, <1>3, InvalidateKeeps DEF Stores

\* The session moves alone, and no upload of it does.
LEMMA SessionA ==
  ASSUME AInv, ses'.desc = ses.desc, ses'.map = ses.map, ses'.cursor = ses.cursor,
         \/ ses'.phase = ses.phase
         \/ ses.phase \in {"WAIT_DESCRIPTOR", "NO_MOUSE"} /\ ses'.phase = "WAIT_REPORT",
         UNCHANGED <<planeVars, link, ring, late, held, blind>>
  PROVE  AInv'
  <1>1. Inside' = Inside /\ Ra' = Ra /\ Rb' = Rb /\ (Unmapped' <=> Unmapped)
    BY DEF Inside, Ra, Rb, Unmapped, planeVars
  <1>2. /\ (Begun' <=> Begun) /\ (Listing' <=> Listing) /\ (Proposed' <=> Proposed)
        /\ (Idling' <=> Idling) /\ (Seen' <=> Seen) /\ (Promoted' <=> Promoted)
    BY DEF Begun, Listing, Proposed, Idling, Seen, Promoted, planeVars
  <1>3. Told' /\ Sources'
    BY <1>1 DEF AInv, Told, Sources, planeVars
  <1>4. Heard' /\ NotAhead' /\ Foreign'
    BY <1>1 DEF AInv, Heard, NotAhead, Foreign, planeVars
  <1>5. Spent'
    BY <1>1, <1>2 DEF AInv, Spent, is_command
  <1>6. BanksFollow' /\ PlaneFollows' /\ Agreement'
    BY <1>1, <1>2 DEF AInv, BanksFollow, PlaneFollows, Agreement, planeVars
  <1> QED
    BY <1>3, <1>4, <1>5, <1>6 DEF AInv

\* The foreground and the console begin no upload and end none.
LEMMA ForegroundA ==
  ASSUME IInv, AInv, Service \/ Offer \/ \E kind \in Kinds : Request(kind)
  PROVE  AInv'
  <1>1. ses \in Sessions
    BY DEF IInv, McuTyped, SessionSound
  <1>2. UNCHANGED <<planeVars, link, ring, late, held, blind>>
    BY DEF Service, Offer, Request, historyVars
  <1>3. CASE Service
    BY <1>1, <1>2, <1>3, SessionA DEF Service, Reconciled, SyncDescriptors, Sessions
  <1>4. CASE Offer
    BY <1>1, <1>2, <1>4, SessionA DEF Offer, OfferLayout, Sessions
  <1>5. CASE \E kind \in Kinds : Request(kind)
    BY <1>1, <1>2, <1>5, SessionA DEF Request, Sessions
  <1> QED
    BY <1>3, <1>4, <1>5

-----------------------------------------------------------------------------
\* The MCU recovers the link: SlotLow tells the session.
LEMMA SlotLowA ==
  ASSUME IInv, AInv, SlotLow
  PROVE  AInv'
  <1>1. /\ ses'.phase = "WAIT_LINK" /\ ses'.desc = ses.desc /\ ses'.map = ses.map
    BY DEF IInv, McuTyped, SessionSound, Sessions, SlotLow, SetLink
  <1>2. /\ link = "low" /\ link' = "low"
        /\ UNCHANGED <<planeVars, ring, late, held>>
    BY DEF SlotLow
  <1>3. Inside' = Inside /\ Ra' = Ra /\ Rb' = Rb /\ (Unmapped' <=> Unmapped)
    BY <1>2 DEF Inside, Ra, Rb, Unmapped, planeVars
  <1>4. ~Begun' /\ ~Listing' /\ ~Proposed' /\ ~Idling' /\ ~Seen'
    BY <1>1 DEF Begun, Listing, Proposed, Idling, Seen
  <1>5. Told' /\ Sources'
    BY <1>1, <1>2 DEF AInv, Told, Sources, planeVars
  <1>6. Heard' /\ NotAhead' /\ Foreign'
    BY <1>1, <1>2, <1>3 DEF AInv, Heard, NotAhead, Foreign, planeVars
  <1>7. Spent' /\ BanksFollow' /\ PlaneFollows' /\ Agreement'
    BY <1>2, <1>4 DEF Spent, BanksFollow, PlaneFollows, Agreement
  <1> QED
    BY <1>5, <1>6, <1>7 DEF AInv

\* RequestsOff clears the banks.
LEMMA RequestsOffA ==
  ASSUME IInv, AInv, RequestsOff
  PROVE  AInv'
  <1>1. /\ link = "low" /\ link' = "off" /\ Ra' = Idle /\ Rb' = Idle
        /\ UNCHANGED <<planeVars, held, ses, blind>>
    BY DEF RequestsOff, IdleRing, Ra, Rb, historyVars
  <1>2. Inside' = Inside /\ Idle.desc # generation /\ Idle.desc <= generation
    BY <1>1, DeviceNumbers DEF Inside, planeVars
  <1>3. Unmapped => Unmapped'
    BY <1>1, <1>2 DEF Unmapped, planeVars
  <1>4. /\ (Begun' <=> Begun) /\ (Listing' <=> Listing) /\ (Proposed' <=> Proposed)
        /\ (Idling' <=> Idling) /\ ~Seen'
    BY <1>1 DEF Begun, Listing, Proposed, Idling, Seen
  <1>5. Told' /\ Sources'
    BY <1>1 DEF AInv, Told, Sources, planeVars
  <1>6. Heard' /\ NotAhead' /\ Foreign'
    BY <1>1, <1>2, <1>3 DEF AInv, Heard, NotAhead, Foreign, planeVars
  <1>7. Spent' /\ BanksFollow' /\ Agreement'
    BY <1>1, <1>4 DEF Spent, BanksFollow, Agreement
  <1>8. PlaneFollows'
    BY <1>1, <1>2, <1>4 DEF AInv, PlaneFollows, planeVars
  <1> QED
    BY <1>5, <1>6, <1>7, <1>8 DEF AInv

\* The link rises empty, and the session waits for it or does not know.
LEMMA ReadyHighA ==
  ASSUME IInv, AInv, ReadyHigh
  PROVE  AInv'
  <1>1. /\ link = "off" /\ link' = "up" /\ UNCHANGED <<ring, late, held, ses, blind>>
        /\ UNCHANGED <<deviceVars, rxVars, status, export, monitor, tx>>
    BY DEF ReadyHigh, LinkRises, historyVars
  <1>2. Inside = {} /\ Inside' = {} /\ ring = IdleRing /\ Ra = Idle /\ Rb = Idle
        /\ Ra' = Ra /\ Rb' = Rb
    <2>1. rx = None /\ staged = None /\ ring = IdleRing
      BY <1>1 DEF IInv, Forgotten, invalidate
    <2>2. rx' = None /\ staged' = None
      BY <1>1, <2>1 DEF rxVars
    <2> QED
      BY <1>1, <2>1, <2>2 DEF Inside, IdleRing, Ra, Rb
  <1>3. Unmapped' <=> Unmapped
    BY <1>1, <1>2 DEF Unmapped, rxVars, deviceVars
  <1>4. /\ (Begun' <=> Begun) /\ (Listing' <=> Listing) /\ (Proposed' <=> Proposed)
        /\ (Idling' <=> Idling)
    BY <1>1 DEF Begun, Listing, Proposed, Idling
  <1>5. ~Seen'
    BY <1>1 DEF AInv, Told, Seen
  <1>6. Told' /\ Sources'
    BY <1>1, <1>2 DEF AInv, Told, Sources, deviceVars
  <1>7. Heard' /\ NotAhead' /\ Foreign'
    BY <1>1, <1>2, <1>3 DEF AInv, Heard, NotAhead, Foreign, deviceVars, rxVars
  <1>8. Spent'
    BY <1>2, DeviceNumbers DEF Spent, is_command
  <1>9. BanksFollow' /\ PlaneFollows' /\ Agreement'
    BY <1>1, <1>2, <1>4, <1>5 DEF AInv, BanksFollow, PlaneFollows, Agreement, rxVars
  <1> QED
    BY <1>6, <1>7, <1>8, <1>9 DEF AInv

\* mcu_ready falls: the session is told, or does not know.
LEMMA ReadyLowA ==
  ASSUME IInv, AInv, ReadyLow
  PROVE  AInv'
  <1>1. /\ link' = "low" /\ link_ready' = FALSE /\ Invalidated
        /\ UNCHANGED <<session, failed, generation, status, export, export_pending, monitor>>
        /\ UNCHANGED <<ring, late>>
    BY DEF ReadyLow, LinkFalls, deviceVars
  <1>2. /\ tx' \in {tx, None} /\ held' \in {tx, held} /\ ses'.desc = ses.desc
        /\ \/ ses' = ses /\ held' = held /\ blind' = TRUE
           \/ ses'.phase = "WAIT_LINK"
    BY DEF IInv, McuTyped, SessionSound, Sessions, ReadyLow, SetLink
  <1>3. /\ Inside' = {} /\ ~store'.bank.valid /\ store'.latched
        /\ store'.state # "IDLE" =>
             /\ store.state = "VALIDATE" /\ store'.state = "VALIDATE"
             /\ store'.begin = store.begin /\ store'.matches = store.matches
    BY <1>1, InvalidatedA
  <1>4. Ra' = Ra /\ Rb' = Rb
    BY <1>1 DEF Ra, Rb
  <1>5. Unmapped => Unmapped'
    BY <1>1, <1>3, <1>4 DEF Unmapped
  <1>6. /\ Begun' => Begun /\ ses' = ses
        /\ Listing' => Listing /\ ses' = ses
        /\ Proposed' => Proposed /\ ses' = ses
        /\ Idling' => Idling /\ ses' = ses
        /\ ~Seen'
    BY <1>1, <1>2 DEF Begun, Listing, Proposed, Idling, Seen
  <1>7. Told' /\ Sources'
    BY <1>1, <1>2 DEF AInv, Told, Sources
  <1>8. None.type # "DESCRIPTOR"
    BY DEF None
  <1>9. Heard' /\ NotAhead' /\ Foreign'
    BY <1>1, <1>2, <1>3, <1>4, <1>5, <1>8 DEF AInv, Heard, NotAhead, Foreign
  <1>10. Spent' /\ BanksFollow' /\ Agreement'
    BY <1>1, <1>4, <1>6 DEF AInv, Spent, BanksFollow, Agreement
  <1>11. PlaneFollows'
    BY <1>1, <1>2, <1>3, <1>6 DEF AInv, PlaneFollows
  <1> QED
    BY <1>7, <1>9, <1>10, <1>11 DEF AInv

\* A new run of the firmware knows of no device.
LEMMA ResetA ==
  ASSUME IInv, AInv, Reset
  PROVE  AInv'
  <1>1. /\ link' = "off" /\ Invalidated
        /\ UNCHANGED <<session, failed, generation, status, export, monitor>>
        /\ Ra' = Idle /\ Rb' = Idle /\ held' = None /\ tx' \in {tx, None}
    BY DEF Reset, LinkFalls, deviceVars, IdleRing, Ra, Rb
  <1>2. ses'.phase = "WAIT_LINK" /\ ses'.desc = 0
    BY DEF Reset, SessionInit
  <1>3. /\ Inside' = {} /\ ~store'.bank.valid /\ store'.latched
        /\ store'.state # "IDLE" => store.state # "IDLE" /\ store'.begin = store.begin
    BY <1>1, InvalidatedA
  <1>4. generation \in Nat \ {0} /\ Idle.desc = 0
    BY DeviceNumbers
  <1>5. ~Begun' /\ ~Listing' /\ ~Proposed' /\ ~Idling' /\ ~Seen'
    BY <1>2 DEF Begun, Listing, Proposed, Idling, Seen
  <1>6. Told' /\ Sources'
    BY <1>1, <1>2 DEF AInv, Told, Sources
  <1>7. None.type # "DESCRIPTOR"
    BY DEF None
  <1>8. Heard' /\ NotAhead'
    BY <1>1, <1>2, <1>3, <1>4, <1>7 DEF AInv, Heard, NotAhead
  <1>9. Foreign'
    BY <1>1, <1>3, <1>4 DEF Foreign, Unmapped
  <1>10. Spent' /\ BanksFollow' /\ PlaneFollows' /\ Agreement'
    BY <1>1, <1>5 DEF Spent, BanksFollow, PlaneFollows, Agreement
  <1> QED
    BY <1>6, <1>8, <1>9, <1>10 DEF AInv

-----------------------------------------------------------------------------
\* The session falls with a poll, and the device stays.
LEMMA PollFailureA ==
  ASSUME IInv, AInv, PollFailure, UNCHANGED <<mcuVars, blind>>
  PROVE  AInv'
  <1>1. /\ session' = FALSE /\ failed' = TRUE /\ Invalidated
        /\ UNCHANGED <<generation, status, export, monitor, tx>>
        /\ UNCHANGED <<link, ring, late, held, ses, blind>>
    BY DEF PollFailure, txVars, mcuVars
  <1>2. /\ Inside' = {} /\ ~store'.bank.valid /\ store'.latched
        /\ store'.state # "IDLE" =>
             /\ store.state = "VALIDATE" /\ store'.state = "VALIDATE"
             /\ store'.begin = store.begin /\ store'.matches = store.matches
    BY <1>1, InvalidatedA
  <1>3. Ra' = Ra /\ Rb' = Rb
    BY <1>1 DEF Ra, Rb
  <1>4. Unmapped => Unmapped'
    BY <1>1, <1>2, <1>3 DEF Unmapped
  <1>5. /\ (Begun' <=> Begun) /\ (Listing' <=> Listing) /\ (Proposed' <=> Proposed)
        /\ (Idling' <=> Idling) /\ ~Seen'
    BY <1>1 DEF Begun, Listing, Proposed, Idling, Seen
  <1>6. Told' /\ Sources'
    BY <1>1, <1>2 DEF AInv, Told, Sources
  <1>7. Heard' /\ NotAhead' /\ Foreign'
    BY <1>1, <1>2, <1>3, <1>4 DEF AInv, Heard, NotAhead, Foreign
  <1>8. Spent'
    BY <1>1, <1>2, <1>3, <1>4, <1>5 DEF AInv, Spent, is_command
  <1>9. BanksFollow' /\ PlaneFollows' /\ Agreement'
    BY <1>1, <1>2, <1>3, <1>5 DEF AInv, BanksFollow, PlaneFollows, Agreement
  <1> QED
    BY <1>6, <1>7, <1>8, <1>9 DEF AInv

\* Everything is of an earlier device once the device is gone.
LEMMA DetachA ==
  ASSUME IInv, AInv, Detach, UNCHANGED <<mcuVars, blind>>
  PROVE  AInv'
  <1>1. /\ session' = FALSE /\ generation' = generation + 1 /\ export'.next = 0 /\ Invalidated
        /\ UNCHANGED <<status, monitor, tx>> /\ UNCHANGED <<link, ring, late, held, ses, blind>>
    BY DEF IInv, PlaneTyped, Detach, mcuVars
  <1>2. /\ Inside' = {} /\ ~store'.bank.valid /\ store'.latched
        /\ store'.state # "IDLE" =>
             /\ store.state = "VALIDATE" /\ store'.state = "VALIDATE"
             /\ store'.begin = store.begin /\ store'.matches = store.matches
    BY <1>1, InvalidatedA
  <1>3. Ra' = Ra /\ Rb' = Rb
    BY <1>1 DEF Ra, Rb
  <1>4. \A n \in Nat : n <= generation => n <= generation' /\ n # generation'
    BY <1>1, DeviceNumbers
  <1>5. /\ Ra.desc \in Nat /\ Rb.desc \in Nat /\ ses.desc \in Nat
        /\ Ra.desc <= generation /\ Rb.desc <= generation /\ ses.desc <= generation
    BY DeviceNumbers DEF AInv, NotAhead, Heard
  <1>6. Unmapped'
    BY <1>1, <1>2, <1>3, <1>4, <1>5 DEF Unmapped
  <1>7. /\ (Begun' <=> Begun) /\ (Listing' <=> Listing) /\ (Proposed' <=> Proposed)
        /\ (Idling' <=> Idling) /\ ~Seen'
    BY <1>1 DEF Begun, Listing, Proposed, Idling, Seen
  <1>8. Told' /\ Sources'
    BY <1>1, <1>2 DEF AInv, Told, Sources
  <1>9. Heard'
    <2>1. tx \in Messages \cup {None} /\ held \in Messages \cup {None}
      BY DEF IInv, McuTyped, PlaneTyped
    <2>2. \A m \in Messages \cup {None} : m.type = "DESCRIPTOR" => m.desc \in Nat
      BY PlaneAssumption DEF Messages, None, Generations
    <2>3. \A m \in {tx, held} : m.type = "DESCRIPTOR" => m.desc \in Nat /\ m.desc <= generation
      BY <2>1, <2>2 DEF AInv, Heard
    <2> QED
      BY <1>1, <1>4, <1>5, <2>3 DEF Heard
  <1>10. NotAhead'
    <2>1. store.begin.desc \in Nat
      BY DEF IInv, PlaneTyped, Stores
    <2> QED
      BY <1>2, <1>3, <1>4, <1>5, <2>1 DEF AInv, NotAhead
  <1>11. Foreign'
    BY <1>3, <1>4, <1>5, <1>6 DEF Foreign
  <1>12. Spent'
    BY <1>1, <1>2, <1>3, <1>6, <1>7 DEF AInv, Spent, is_command
  <1>13. BanksFollow' /\ PlaneFollows' /\ Agreement'
    BY <1>1, <1>2, <1>3, <1>7 DEF AInv, BanksFollow, PlaneFollows, Agreement
  <1> QED
    BY <1>8, <1>9, <1>10, <1>11, <1>12, <1>13 DEF AInv

\* The session has not heard of a device that is enumerated only now.
LEMMA EnumeratedA ==
  ASSUME IInv, AInv, Enumerated, UNCHANGED <<mcuVars, blind>>
  PROVE  AInv'
  <1>1. /\ ~session /\ ~failed /\ session' = TRUE
        /\ UNCHANGED <<generation, rx, staged, store, status, export, monitor, tx>>
        /\ UNCHANGED <<link, ring, late, held, ses, blind>>
    BY DEF Enumerated, rxVars, mcuVars
  <1>2. Inside' = Inside /\ Ra' = Ra /\ Rb' = Rb /\ (Unmapped' <=> Unmapped)
    BY <1>1 DEF Inside, Ra, Rb, Unmapped
  <1>3. /\ (Begun' <=> Begun) /\ (Listing' <=> Listing) /\ (Proposed' <=> Proposed)
        /\ (Idling' <=> Idling)
    BY <1>1 DEF Begun, Listing, Proposed, Idling
  <1>4. ~Seen'
    BY <1>1 DEF AInv, Heard, Seen
  <1>5. Told' /\ Sources'
    BY <1>1, <1>2 DEF AInv, Told, Sources
  <1>6. Heard' /\ NotAhead' /\ Foreign'
    BY <1>1, <1>2 DEF AInv, Heard, NotAhead, Foreign
  <1>7. Spent'
    BY <1>1, <1>2, <1>3 DEF AInv, Spent, is_command
  <1>8. BanksFollow' /\ PlaneFollows' /\ Agreement'
    BY <1>1, <1>2, <1>3, <1>4 DEF AInv, BanksFollow, PlaneFollows, Agreement
  <1> QED
    BY <1>5, <1>6, <1>7, <1>8 DEF AInv

-----------------------------------------------------------------------------
\* The plane works and the session does not move: what the invariant says of
\* the session alone, of the banks and of the messages the session gets, stays.
LEMMA PlaneA ==
  ASSUME AInv, UNCHANGED <<link_ready, deviceVars, mcuVars, blind>>
  PROVE  /\ Ra' = Ra /\ Rb' = Rb /\ BanksFollow'
         /\ (Begun' <=> Begun) /\ (Listing' <=> Listing) /\ (Proposed' <=> Proposed)
         /\ (Idling' <=> Idling) /\ (Seen' <=> Seen)
         /\ UNCHANGED <<link, session, failed, generation, ring, late, held, ses, blind>>
  <1>1. UNCHANGED <<link, session, failed, generation, ring, late, held, ses, blind>>
    BY DEF deviceVars, mcuVars
  <1>2. /\ Ra' = Ra /\ Rb' = Rb /\ (Begun' <=> Begun) /\ (Listing' <=> Listing)
        /\ (Proposed' <=> Proposed) /\ (Idling' <=> Idling) /\ (Seen' <=> Seen)
    BY <1>1 DEF Ra, Rb, Begun, Listing, Proposed, Idling, Seen
  <1>3. BanksFollow'
    BY <1>1, <1>2 DEF AInv, BanksFollow
  <1> QED
    BY <1>1, <1>2, <1>3

\* The receive side works: with fewer frames, and a store as good.
LEMMA ReceiveA ==
  ASSUME AInv, UNCHANGED <<link_ready, deviceVars, mcuVars, blind, txVars>>,
         Inside' \subseteq Inside,
         store'.state # "IDLE" => store'.begin.desc <= generation,
         Unmapped => Unmapped',
         Listing => store'.state # "VALIDATE",
         Proposed /\ store'.state = "VALIDATE" /\ store'.matches => store'.begin.map = ses.map,
         store'.state = "VALIDATE" => ~store'.latched, store'.bank = store.bank
  PROVE  AInv'
  <1>1. /\ Ra' = Ra /\ Rb' = Rb /\ BanksFollow'
        /\ (Begun' <=> Begun) /\ (Listing' <=> Listing) /\ (Proposed' <=> Proposed)
        /\ (Idling' <=> Idling) /\ (Seen' <=> Seen)
        /\ UNCHANGED <<link, session, failed, generation, ring, late, held, ses, blind>>
    BY PlaneA
  <1>2. UNCHANGED <<status, export, monitor, tx>> /\ (Promoted' <=> Promoted)
    BY <1>1 DEF txVars, Promoted
  <1>3. Told' /\ Sources'
    BY <1>1, <1>2 DEF AInv, Told, Sources
  <1>4. Heard' /\ NotAhead' /\ Foreign'
    BY <1>1, <1>2 DEF AInv, Heard, NotAhead, Foreign
  <1>5. Spent'
    BY <1>1 DEF AInv, Spent, is_command
  <1>6. PlaneFollows' /\ Agreement'
    BY <1>1, <1>2 DEF AInv, PlaneFollows, Agreement
  <1> QED
    BY <1>1, <1>3, <1>4, <1>5, <1>6 DEF AInv

\* A frame is staged.
LEMMA StageA ==
  ASSUME IInv, AInv, Stage, UNCHANGED <<mcuVars, blind>>
  PROVE  AInv'
  <1>1. rx # None /\ staged = None /\ ~invalidate /\ rx' = None /\ staged' # None /\ staged'.frame = rx
    BY DEF Stage, None
  <1>2. Inside' = Inside
    BY <1>1 DEF Inside
  <1>3. /\ UNCHANGED <<link_ready, deviceVars, store, txVars>>
    BY DEF Stage
  <1>4. UNCHANGED <<link, generation, ses>>
    BY <1>3 DEF deviceVars, mcuVars
  <1>5. /\ (Listing' <=> Listing) /\ (Proposed' <=> Proposed) /\ (Unmapped' <=> Unmapped)
        /\ Ra' = Ra /\ Rb' = Rb /\ (Begun' <=> Begun) /\ (Idling' <=> Idling) /\ (Seen' <=> Seen)
        /\ BanksFollow'
        /\ UNCHANGED <<link, session, failed, generation, ring, late, held, ses, blind>>
    BY <1>2, <1>3, PlaneA DEF Unmapped
  <1>6. UNCHANGED <<status, export, monitor, tx>> /\ (Promoted' <=> Promoted)
    BY <1>3, <1>5 DEF txVars, Promoted
  <1>7. Told' /\ Sources'
    BY <1>2, <1>5, <1>6 DEF AInv, Told, Sources
  <1>8. Heard' /\ NotAhead' /\ Foreign'
    BY <1>2, <1>3, <1>5, <1>6 DEF AInv, Heard, NotAhead, Foreign
  <1>9. Spent'
    BY <1>2, <1>5 DEF AInv, Spent, is_command
  <1>10. PlaneFollows' /\ Agreement'
    BY <1>2, <1>3, <1>5, <1>6 DEF AInv, PlaneFollows, Agreement
  <1> QED
    BY <1>5, <1>7, <1>8, <1>9, <1>10 DEF AInv

\* A frame leaves the plane, and may go to the map store.
LEMMA LeavesA ==
  ASSUME IInv, AInv, staged # None, FrameLeaves,
         store' = store \/ store' = MapMessage(staged.frame),
         UNCHANGED <<link_ready, deviceVars, rx, txVars, mcuVars, blind>>
  PROVE  AInv'
  <1> DEFINE f == staged.frame
  <1>1. f \in Frames /\ f \in Inside /\ store \in Stores
    BY StagedFrame, NoFrames DEF IInv, PlaneTyped, Inside
  <1>2. Inside' \subseteq Inside /\ Ra' = Ra /\ generation' = generation
    BY PlaneA DEF FrameLeaves, Inside
  <1>3. f.desc <= generation
    BY <1>1 DEF AInv, NotAhead
  <1> HIDE DEF f
  <1>4. CASE store' = store
    <2>1. CASE store.state = "VALIDATE" /\ store.latched
      <3>1. UNCHANGED <<status, export, monitor, tx>>
        BY DEF txVars
      <3>2. /\ Ra' = Ra /\ Rb' = Rb /\ BanksFollow'
            /\ (Begun' <=> Begun) /\ (Listing' <=> Listing) /\ (Proposed' <=> Proposed)
            /\ (Idling' <=> Idling) /\ (Seen' <=> Seen)
            /\ UNCHANGED <<link, session, failed, generation, ring, late, held, ses, blind>>
        BY PlaneA
      <3>3. ~Seen
        BY <2>1 DEF AInv, Agreement
      <3>4. Unmapped => Unmapped'
        BY <1>2, <1>4 DEF Unmapped
      <3>5. Told' /\ Sources'
        BY <1>2, <3>1, <3>2 DEF AInv, Told, Sources
      <3>6. Heard' /\ NotAhead' /\ Foreign'
        BY <1>2, <1>4, <3>1, <3>2, <3>4 DEF AInv, Heard, NotAhead, Foreign
      <3>7. Spent'
        BY <1>2, <3>2, <3>4 DEF AInv, Spent, is_command
      <3>8. PlaneFollows' /\ Agreement'
        BY <1>2, <1>4, <3>1, <3>2, <3>3 DEF AInv, PlaneFollows, Agreement
      <3> QED
        BY <3>2, <3>5, <3>6, <3>7, <3>8 DEF AInv
    <2>2. CASE ~(store.state = "VALIDATE" /\ store.latched)
      <3>1. Unmapped => Unmapped'
        BY <1>2, <1>4 DEF Unmapped
      <3> QED
        BY <1>2, <1>4, <2>2, <3>1, ReceiveA DEF AInv, NotAhead, PlaneFollows
    <2> QED
      BY <2>1, <2>2
  <1>5. CASE f.type = "MAP_BEGIN" /\ ~busy(store) /\ store' = StoreBegin(store, f)
    <2>1. /\ store'.state = "RECEIVE" /\ store'.begin = Header(f) /\ store'.latched = FALSE
          /\ store'.bank = store.bank
      BY <1>1, <1>5, BeginKeeps
    <2>2. store'.begin.desc = f.desc
      BY <2>1 DEF Header
    <2>3. Unmapped => Unmapped'
      BY <1>1, <1>2, <2>1, <2>2 DEF Unmapped
    <2> QED
      BY <1>2, <1>3, <2>1, <2>2, <2>3, ReceiveA
  <1>6. CASE f.type = "MAP_ENTRY" /\ store.state = "RECEIVE" /\ store' = StoreEntry(store, f)
    <2>1. /\ store'.state = "RECEIVE" /\ store'.begin = store.begin
          /\ store'.latched = store.latched /\ store'.bank = store.bank
      BY <1>1, <1>6, EntryKeeps
    <2>2. Unmapped => Unmapped'
      BY <1>2, <1>6, <2>1 DEF Unmapped
    <2> QED
      BY <1>2, <1>6, <2>1, <2>2, ReceiveA DEF AInv, NotAhead
  <1>7. CASE f.type = "MAP_COMMIT" /\ store.state = "RECEIVE" /\ store' = StoreCommit(store, f, generation)
    <2>1. /\ store'.state = "VALIDATE" /\ store'.begin = store.begin
          /\ store'.matches = CommitMatches(store, f, generation)
          /\ store'.latched = store.latched /\ store'.bank = store.bank
      BY <1>1, <1>7, CommitKeeps
    <2>2. ~store.latched
      BY <1>7 DEF IInv, Forgotten
    <2>3. Unmapped => Unmapped'
      BY <1>2, <1>7, <2>1 DEF Unmapped
    <2>4. ~Listing
      BY <1>1, <1>7 DEF AInv, PlaneFollows
    <2>5. Proposed /\ store'.matches => store'.begin.map = ses.map
      <3>1. ASSUME store'.matches
            PROVE  store.begin.map = f.map
        <4>1. CommitMatches(store, f, generation)
          BY <2>1, <3>1
        <4>2. Header(f) = store.begin
          BY <4>1 DEF CommitMatches
        <4>3. Header(f).map = f.map
          BY DEF Header
        <4> QED
          BY <4>2, <4>3
      <3>2. Proposed => f.map = ses.map
        BY <1>1 DEF AInv, PlaneFollows
      <3> QED
        BY <2>1, <3>1, <3>2
    <2> QED
      BY <1>2, <1>7, <2>1, <2>2, <2>3, <2>4, <2>5, ReceiveA DEF AInv, NotAhead
  <1> QED
    BY <1>4, <1>5, <1>6, <1>7 DEF MapMessage, f

\* The end of a validation: an answer is of the map now active.
LEMMA ValidateA ==
  ASSUME IInv, AInv, Validate, UNCHANGED <<mcuVars, blind>>
  PROVE  AInv'
  <1>1. store \in Stores /\ store.state = "VALIDATE" /\ store' = StoreEnd(store, generation)
    BY DEF IInv, PlaneTyped, Validate
  <1>2. /\ store'.state = "IDLE" /\ store'.latched = store.latched
        /\ store'.bank = IF Accepted(store, generation) THEN Flipped(store) ELSE store.bank
    BY <1>1, EndKeeps
  <1>3. /\ Ra' = Ra /\ Rb' = Rb /\ BanksFollow'
        /\ (Begun' <=> Begun) /\ (Listing' <=> Listing) /\ (Proposed' <=> Proposed)
        /\ (Idling' <=> Idling) /\ (Seen' <=> Seen)
        /\ UNCHANGED <<link, session, failed, generation, ring, late, held, ses, blind>>
    BY PlaneA DEF Validate
  <1>4. Inside' = Inside /\ UNCHANGED <<export, monitor, tx>>
    BY DEF Validate, Inside
  <1>5. \/ status # None /\ status' = status
        \/ /\ status = None /\ status'.type \in {"ACCEPTED", "REJECTED"}
           /\ status'.type = "ACCEPTED" => Accepted(store, generation) /\ status'.arg = store'.bank.map
    BY DEF Validate, Message
  <1>6. Accepted(store, generation) =>
          /\ store.matches /\ store.begin.desc = generation
          /\ store'.bank.valid = ~store.latched /\ store'.bank.map = store.begin.map
    BY <1>2 DEF Accepted, Flipped
  <1>7. Unmapped => Unmapped'
    BY <1>1, <1>2, <1>3, <1>4, <1>6 DEF Unmapped
  <1>8. Told' /\ Sources'
    BY <1>3, <1>4, <1>5 DEF AInv, Told, Sources
  <1>9. Heard' /\ NotAhead' /\ Foreign'
    BY <1>2, <1>3, <1>4, <1>7 DEF AInv, Heard, NotAhead, Foreign
  <1>10. Spent'
    BY <1>3, <1>4, <1>7 DEF AInv, Spent, is_command
  <1>11. PlaneFollows'
    BY <1>1, <1>2, <1>3, <1>4 DEF AInv, PlaneFollows
  <1>12. Agreement'
    <2> SUFFICES ASSUME Seen, Promoted'
                 PROVE  store'.bank.valid /\ store'.bank.map = ses.map
      BY <1>2, <1>3 DEF Agreement
    <2>1. ~store.latched
      BY <1>1 DEF AInv, Agreement
    <2>2. Proposed
      BY <1>3 DEF Promoted, Proposed
    <2>3. CASE Accepted(store, generation)
      BY <1>1, <1>6, <2>1, <2>2, <2>3 DEF AInv, PlaneFollows
    <2>4. CASE ~Accepted(store, generation)
      <3>1. Promoted
        BY <1>3, <1>4, <1>5, <2>4 DEF Promoted
      <3> QED
        BY <1>2, <2>4, <3>1 DEF AInv, Agreement
    <2> QED
      BY <2>3, <2>4
  <1> QED
    BY <1>3, <1>8, <1>9, <1>10, <1>11, <1>12 DEF AInv

\* The plane's transmit side works.
LEMMA TransmitA ==
  ASSUME IInv, AInv, ExportStart \/ Fill \/ (\E i \in Interfaces(generation) : Report(i)),
         UNCHANGED <<mcuVars, blind>>
  PROVE  AInv'
  <1>1. UNCHANGED <<link_ready, deviceVars, rxVars>>
    BY DEF ExportStart, Fill, Report
  <1>2. /\ Ra' = Ra /\ Rb' = Rb /\ BanksFollow'
        /\ (Begun' <=> Begun) /\ (Listing' <=> Listing) /\ (Proposed' <=> Proposed)
        /\ (Idling' <=> Idling) /\ (Seen' <=> Seen)
        /\ UNCHANGED <<link, session, failed, generation, ring, late, held, ses, blind>>
    BY <1>1, PlaneA
  <1>3. Inside' = Inside /\ store' = store /\ (Unmapped' <=> Unmapped)
    BY <1>1, <1>2 DEF rxVars, Inside, Unmapped
  <1>4. export \in [desc : Generations, next : Nat]
    BY DEF IInv, PlaneTyped
  <1>5. /\ None.type \notin {"DESCRIPTOR", "ACCEPTED", "REJECTED"}
        /\ tx' = tx \/ tx = None
        /\ \/ status' = None /\ tx' = status
           \/ status' = status /\ (status = None \/ tx' = tx)
    BY DEF ExportStart, Fill, Report, FillStatus, FillDescriptor, FillReport, None
  <1>6. /\ tx' = tx \/ tx' = status \/ tx'.type = "REPORT"
           \/ (tx'.type = "DESCRIPTOR" /\ tx'.desc = generation /\ export.next # 0)
        /\ monitor' # None => monitor'.type = "REPORT"
        /\ export'.next # 0 => export'.desc = generation /\ (session \/ export.next # 0)
    <2>1. CASE ExportStart
      BY <2>1 DEF ExportStart, invalidate, AInv, Sources
    <2>2. CASE Fill /\ FillStatus
      BY <2>2 DEF Fill, FillStatus, AInv, Sources
    <2>3. CASE Fill /\ FillDescriptor
      <3>1. export'.desc = export.desc /\ export.next # 0
        BY <1>4, <2>3 DEF FillDescriptor
      <3>2. tx'.type = "DESCRIPTOR" /\ tx'.desc = export.desc
        BY <2>3 DEF FillDescriptor, Message
      <3> QED
        BY <2>3, <3>1, <3>2 DEF Fill, FillDescriptor, AInv, Sources
    <2>4. CASE Fill /\ FillReport
      BY <2>4 DEF Fill, FillReport, AInv, Sources
    <2>5. CASE \E i \in Interfaces(generation) : Report(i)
      BY <2>5 DEF Report, Message, AInv, Sources
    <2> QED
      BY <2>1, <2>2, <2>3, <2>4, <2>5 DEF Fill
  <1>7. Told'
    BY <1>2, <1>3 DEF AInv, Told
  <1>8. Sources'
    BY <1>2, <1>5, <1>6 DEF AInv, Sources
  <1>9. status # None => status.type \in {"ACCEPTED", "REJECTED"}
    BY DEF AInv, Sources
  <1>10. Heard'
    <2>1. tx'.type = "DESCRIPTOR" => tx' = tx \/ (tx'.desc = generation /\ export.next # 0)
      BY <1>5, <1>6, <1>9
    <2>2. generation <= generation
      BY DeviceNumbers
    <2> QED
      BY <1>2, <1>6, <2>1, <2>2 DEF AInv, Heard
  <1>11. NotAhead' /\ Foreign'
    BY <1>2, <1>3 DEF AInv, NotAhead, Foreign
  <1>12. Spent'
    BY <1>2, <1>3 DEF AInv, Spent, is_command
  <1>13. PlaneFollows'
    BY <1>2, <1>3, <1>5 DEF AInv, PlaneFollows
  <1>14. Promoted' => Promoted
    BY <1>2, <1>5, <1>6 DEF Promoted
  <1>15. Agreement'
    BY <1>2, <1>3, <1>14 DEF AInv, Agreement
  <1> QED
    BY <1>2, <1>7, <1>8, <1>10, <1>11, <1>12, <1>13, <1>15 DEF AInv

\* A command leaves for the engine.
LEMMA CommitA ==
  ASSUME IInv, AInv, CommandLeaves, UNCHANGED <<mcuVars, blind>>
  PROVE  AInv'
  <1>1. staged # None /\ FrameLeaves /\ UNCHANGED <<link_ready, deviceVars, rx, store, txVars>>
    BY DEF CommandLeaves, CommandWaits
  <1> QED
    BY <1>1, LeavesA

-----------------------------------------------------------------------------
\* The phases of a session that waits for a device, a verdict or a report.
Waiting == {"WAIT_DESCRIPTOR", "NO_MOUSE", "WAIT_REPORT"}

\* What one message does to the session: it forgets its device, begins an
\* upload, or has its answer.
Hears(s, msg, t) ==
  \/ t.phase = s.phase /\ t.desc = s.desc /\ t.map = s.map /\ t.cursor = s.cursor
  \/ /\ msg.type = "DESCRIPTOR" /\ msg.desc # s.desc /\ t.desc = msg.desc
     /\ t.phase = "WAIT_DESCRIPTOR"
  \/ s.phase = "WAIT_REPORT" /\ t.phase = "SEND_BEGIN" /\ t.desc = s.desc
  \/ s.phase = "WAIT_COMMIT" /\ t.phase = "WAIT_REPORT" /\ t.desc = s.desc
  \/ /\ s.phase = "WAIT_COMMIT" /\ t.phase = "INJECTING" /\ t.desc = s.desc /\ t.map = s.map
     /\ msg.type = "ACCEPTED" /\ msg.arg = s.map

\* What the session does as it fills a frame, by its phase.
Sends(t, u, f) ==
  /\ u.desc = t.desc /\ u.map = t.map
  /\ f = Idle \/ (f \in Frames /\ f.desc = t.desc /\ f.map = t.map)
  /\ \/ t.phase \in Waiting /\ u.phase \in Waiting /\ f = Idle
     \/ t.phase = "SEND_BEGIN" /\ u.phase = "SEND_ENTRY" /\ u.cursor = 0 /\ f.type = "MAP_BEGIN"
     \/ /\ t.phase = "SEND_ENTRY" /\ u.phase \in {"SEND_ENTRY", "SEND_COMMIT"}
        /\ u.cursor = t.cursor + 1 /\ f.type = "MAP_ENTRY"
     \/ t.phase = "SEND_COMMIT" /\ u.phase = "WAIT_COMMIT" /\ f.type = "MAP_COMMIT"
     \/ t.phase = "WAIT_COMMIT" /\ u.phase \in {"WAIT_COMMIT", "WAIT_REPORT"} /\ f = Idle
     \/ t.phase = "INJECTING" /\ u.phase = "INJECTING"

\* link_inject_consume.
LEMMA ConsumeHears ==
  ASSUME NEW s, SessionSound(s), s.phase # "WAIT_LINK", NEW d, NEW msg \in Messages \cup {None}
  PROVE  Hears(s, msg, Consume(s, d, msg))
  <1>1. s \in Sessions
    BY DEF SessionSound
  <1>2. Hears(s, msg, s)
    BY DEF Hears
  <1>3. CASE msg.type = "DESCRIPTOR"
    <2> DEFINE slot == PushedSlot(d, msg.desc, msg.arg)
               edge == newly_complete(d, msg.desc, msg.arg)
               known == adopt_generation(s, msg.desc)
               t == [known EXCEPT !.settle = 0, !.complete = @ \union (IF edge THEN {slot} ELSE {})]
               lost_device == forget_device(s, msg.desc)
    <2>1. known \in Sessions
      BY <1>3, AdoptSound DEF Messages, None, SessionSound
    <2>2. t.phase = known.phase /\ t.desc = known.desc /\ t.map = known.map /\ t.cursor = known.cursor
      BY <2>1 DEF Sessions
    <2>3. lost_device.phase = "WAIT_DESCRIPTOR" /\ lost_device.desc = msg.desc
      BY <1>1 DEF forget_device, Sessions
    <2>4. known = s \/ (msg.desc # s.desc /\ known = lost_device)
      BY DEF adopt_generation
    <2> HIDE DEF t, known, lost_device
    <2>5. Hears(s, msg, t)
      BY <1>3, <2>2, <2>3, <2>4 DEF Hears
    <2>6. Consume(s, d, msg) \in {s, t}
      BY <1>3 DEF Consume, ObserveDescriptor, t, known
    <2> QED
      BY <1>2, <2>5, <2>6
  <1>4. CASE msg.type = "REPORT"
    <2> DEFINE t == begin_upload(s)
    <2>1. t.phase = "SEND_BEGIN" /\ t.desc = s.desc
      BY <1>1 DEF begin_upload, Sessions
    <2>2. Consume(s, d, msg) = s \/ (s.phase = "WAIT_REPORT" /\ Consume(s, d, msg) = t)
      BY <1>4 DEF Consume, ObserveReport
    <2> HIDE DEF t
    <2> QED
      BY <1>2, <2>1, <2>2 DEF Hears
  <1>5. CASE msg.type \in {"ACCEPTED", "REJECTED"}
    <2> DEFINE t == [s EXCEPT !.phase = "WAIT_REPORT"]
               u == [s EXCEPT !.active = msg.arg, !.phase = "INJECTING"]
    <2>1. t.phase = "WAIT_REPORT" /\ t.desc = s.desc
      BY <1>1 DEF Sessions
    <2>2. u.phase = "INJECTING" /\ u.desc = s.desc /\ u.map = s.map
      BY <1>1 DEF Sessions
    <2>3. \/ Consume(s, d, msg) = s
          \/ s.phase = "WAIT_COMMIT" /\ Consume(s, d, msg) = t
          \/ /\ s.phase = "WAIT_COMMIT" /\ msg.type = "ACCEPTED" /\ msg.arg = s.map
             /\ Consume(s, d, msg) = u
      BY <1>5 DEF Consume, ObserveMapStatus
    <2> HIDE DEF t, u
    <2> QED
      BY <1>2, <2>1, <2>2, <2>3 DEF Hears
  <1> QED
    BY <1>2, <1>3, <1>4, <1>5 DEF Consume

\* inj_session_fill_tx.
LEMMA FillSends ==
  ASSUME NEW t, SessionSound(t), t.phase # "WAIT_LINK"
  PROVE  Sends(t, FillTx(t).session, FillTx(t).frame)
  <1>1. t \in Sessions
    BY DEF SessionSound
  <1> DEFINE u == FillTx(t).session
             f == FillTx(t).frame
  <1>2. /\ u.desc = t.desc /\ u.map = t.map
        /\ f = Idle \/ (f \in Frames /\ f.desc = t.desc /\ f.map = t.map)
    BY FillTxSound DEF Filled
  <1>3. CASE t.phase = "WAIT_DESCRIPTOR"
    <2>1. u = settle_step(t) /\ f = Idle
      BY <1>3 DEF FillTx, Quiet
    <2>2. settle_step(t).phase \in {t.phase, "NO_MOUSE"}
      BY <1>1 DEF settle_step, Sessions
    <2> QED
      BY <1>2, <1>3, <2>1, <2>2 DEF Sends, Waiting
  <1>4. CASE t.phase = "SEND_BEGIN"
    <2> DEFINE v == [t EXCEPT !.cursor = 0, !.phase = "SEND_ENTRY"]
    <2>1. u = [v EXCEPT !.seq = NextFrameSeq(v)] /\ f.type = "MAP_BEGIN"
      BY <1>4 DEF FillTx, Emit, Frame
    <2>2. u.phase = "SEND_ENTRY" /\ u.cursor = 0
      BY <1>1, <2>1 DEF Sessions
    <2> QED
      BY <1>2, <1>4, <2>1, <2>2 DEF Sends
  <1>5. CASE t.phase = "SEND_ENTRY"
    <2> DEFINE v == sent_entry(t)
    <2>1. u = [v EXCEPT !.seq = NextFrameSeq(v)] /\ f.type = "MAP_ENTRY"
      BY <1>5 DEF FillTx, Emit, Frame
    <2>2. u.phase \in {"SEND_ENTRY", "SEND_COMMIT"} /\ u.cursor = t.cursor + 1
      BY <1>1, <1>5, <2>1 DEF Sessions, sent_entry
    <2> QED
      BY <1>2, <1>5, <2>1, <2>2 DEF Sends
  <1>6. CASE t.phase = "SEND_COMMIT"
    <2> DEFINE v == [t EXCEPT !.wait = 0, !.phase = "WAIT_COMMIT"]
    <2>1. u = [v EXCEPT !.seq = NextFrameSeq(v)] /\ f.type = "MAP_COMMIT"
      BY <1>6 DEF FillTx, Emit, Frame
    <2>2. u.phase = "WAIT_COMMIT"
      BY <1>1, <2>1 DEF Sessions
    <2> QED
      BY <1>2, <1>6, <2>1, <2>2 DEF Sends
  <1>7. CASE t.phase = "WAIT_COMMIT"
    <2>1. u = commit_wait(t) /\ f = Idle
      BY <1>7 DEF FillTx, Quiet
    <2>2. commit_wait(t).phase \in {"WAIT_COMMIT", "WAIT_REPORT"}
      BY <1>1, <1>7 DEF commit_wait, Sessions
    <2> QED
      BY <1>2, <1>7, <2>1, <2>2 DEF Sends
  <1>8. CASE t.phase = "INJECTING" /\ t.req # NoRequest
    <2> DEFINE v == [t EXCEPT !.req = NoRequest]
    <2>1. u = [v EXCEPT !.seq = NextFrameSeq(v)]
      BY <1>8 DEF FillTx, EmitCommand, Emit
    <2>2. u.phase = "INJECTING"
      BY <1>1, <1>8, <2>1 DEF Sessions
    <2> QED
      BY <1>2, <1>8, <2>2 DEF Sends
  <1>9. CASE /\ t.phase \notin {"WAIT_DESCRIPTOR", "SEND_BEGIN", "SEND_ENTRY", "SEND_COMMIT", "WAIT_COMMIT"}
             /\ ~(t.phase = "INJECTING" /\ t.req # NoRequest)
    <2>1. u = t /\ f = Idle
      BY <1>9 DEF FillTx, Quiet
    <2>2. t.phase \in Waiting \cup {"INJECTING"}
      BY <1>1, <1>9 DEF Sessions, Phases, Waiting
    <2> QED
      BY <1>2, <2>1, <2>2 DEF Sends
  <1> QED
    BY <1>3, <1>4, <1>5, <1>6, <1>7, <1>8, <1>9

\* The retirement interrupt, by the phase it finds: the session waits on, has
\* lost its device, or gives its upload up; it begins one; it sends the next
\* frame of one; it waits for the answer; it is told; it injects.
Retires(msg, f) ==
  /\ Rb' = f /\ Ra' = Rb /\ held' = None
  /\ f = Idle \/ (f \in Frames /\ f.desc = ses'.desc /\ f.map = ses'.map)
  /\ \/ ses'.desc = ses.desc
     \/ \E m \in {held, msg} : m.type = "DESCRIPTOR" /\ ses'.desc = m.desc
  /\ \/ /\ Idling' /\ f = Idle
        /\ ses.phase \in {"SEND_ENTRY", "SEND_COMMIT", "INJECTING"} => ses'.desc # ses.desc
     \/ (Idling \/ ses.phase = "WAIT_LINK") /\ Begun' /\ f.type = "MAP_BEGIN" /\ ses'.desc = ses.desc
     \/ /\ ses'.desc = ses.desc /\ ses'.map = ses.map /\ ses'.phase # "SEND_BEGIN"
        /\ \/ /\ ses.phase = "SEND_ENTRY" /\ Listing' /\ ses'.cursor = ses.cursor + 1
              /\ f.type = "MAP_ENTRY"
           \/ ses.phase = "SEND_COMMIT" /\ ses'.phase = "WAIT_COMMIT" /\ f.type = "MAP_COMMIT"
           \/ ses.phase = "WAIT_COMMIT" /\ ses'.phase = "WAIT_COMMIT" /\ f = Idle
           \/ /\ ses.phase = "WAIT_COMMIT" /\ ses'.phase = "INJECTING"
              /\ msg.type = "ACCEPTED" /\ msg.arg = ses.map
           \/ ses.phase = "INJECTING" /\ ses'.phase = "INJECTING"

\* A session that is not held up hears at most one message and sends.
LEMMA RetireUp ==
  ASSUME IInv, AInv, ses.phase # "WAIT_LINK", ~late, late' = FALSE,
         NEW msg \in Messages \cup {None}, Retire(msg)
  PROVE  \E f : Retires(msg, f)
  <1> DEFINE second == Consume(ses, set, msg)
             out == FillTx(second)
  <1>1. SessionSound(ses) /\ SetSound(set) /\ ses \in Sessions /\ ses.phase # "SEND_BEGIN"
    BY DEF IInv, McuTyped, AInv, Told, SessionSound
  <1>2. held = None
    BY DEF AInv, Told
  <1>3. SetLink(ses, TRUE) = ses /\ Consume(ses, set, None) = ses /\ ConsumedBySet(set, None) = set
    BY DEF SetLink, Consume, ConsumedBySet, None
  <1>4. ses' = out.session /\ held' = None /\ ring' = <<ring[2], out.frame>>
    BY <1>2, <1>3 DEF Retire
  <1>5. SessionSound(second) /\ Hears(ses, msg, second)
    BY <1>1, ConsumeSound, ConsumeHears
  <1>6. second.phase # "WAIT_LINK"
    BY <1>5 DEF Hears
  <1> HIDE DEF second
  <1>7. Sends(second, out.session, out.frame)
    BY <1>5, <1>6, FillSends
  <1> DEFINE f == out.frame
  <1>8. Rb' = f /\ Ra' = Rb
    BY <1>4 DEF Ra, Rb
  <1> HIDE DEF out
  <1>9. Sends(second, ses', f)
    BY <1>4, <1>7
  <1> HIDE DEF f
  <1>10. second.cursor \in Nat /\ ses.cursor \in Nat
    BY <1>1, <1>5 DEF SessionSound, Sessions
  <1>11. Retires(msg, f)
    <2>1. /\ f = Idle \/ (f \in Frames /\ f.desc = ses'.desc /\ f.map = ses'.map)
          /\ \/ ses'.desc = ses.desc
             \/ \E m \in {held, msg} : m.type = "DESCRIPTOR" /\ ses'.desc = m.desc
      BY <1>5, <1>9 DEF Hears, Sends
    <2>2. CASE second.phase \in Waiting
      <3>1. Idling' /\ f = Idle
        BY <1>9, <2>2 DEF Sends, Waiting, Idling
      <3>2. ses.phase \in {"SEND_ENTRY", "SEND_COMMIT", "INJECTING"} => ses'.desc # ses.desc
        BY <1>5, <1>9, <2>2 DEF Hears, Sends, Waiting
      <3> QED
        BY <1>4, <1>8, <2>1, <3>1, <3>2 DEF Retires
    <2>3. CASE second.phase = "SEND_BEGIN"
      <3>1. Begun' /\ f.type = "MAP_BEGIN" /\ ses'.desc = ses.desc /\ Idling
        BY <1>1, <1>5, <1>9, <2>3 DEF Hears, Sends, Waiting, Idling, Begun
      <3> QED
        BY <1>4, <1>8, <2>1, <3>1 DEF Retires
    <2>4. CASE second.phase = "SEND_ENTRY"
      <3>1. ses.phase = "SEND_ENTRY" /\ second.cursor = ses.cursor
        BY <1>5, <2>4 DEF Hears
      <3>2. /\ ses'.desc = ses.desc /\ ses'.map = ses.map /\ ses'.cursor = ses.cursor + 1
            /\ ses'.phase \in {"SEND_ENTRY", "SEND_COMMIT"} /\ f.type = "MAP_ENTRY"
        BY <1>5, <1>9, <2>4, <3>1 DEF Hears, Sends, Waiting
      <3>3. Listing'
        BY <1>10, <3>2 DEF Listing
      <3> QED
        BY <1>4, <1>8, <2>1, <3>1, <3>2, <3>3 DEF Retires
    <2>5. CASE second.phase = "SEND_COMMIT"
      <3>1. /\ ses.phase = "SEND_COMMIT" /\ ses'.desc = ses.desc /\ ses'.map = ses.map
            /\ ses'.phase = "WAIT_COMMIT" /\ f.type = "MAP_COMMIT"
        BY <1>5, <1>9, <2>5 DEF Hears, Sends, Waiting
      <3> QED
        BY <1>4, <1>8, <2>1, <3>1 DEF Retires
    <2>6. CASE second.phase = "WAIT_COMMIT"
      <3>1. ses.phase = "WAIT_COMMIT" /\ ses'.desc = ses.desc /\ ses'.map = ses.map /\ f = Idle
            /\ ses'.phase \in {"WAIT_COMMIT", "WAIT_REPORT"}
        BY <1>5, <1>9, <2>6 DEF Hears, Sends, Waiting
      <3> QED
        BY <1>4, <1>8, <2>1, <3>1 DEF Retires, Idling
    <2>7. CASE second.phase = "INJECTING"
      <3>1. /\ ses'.desc = ses.desc /\ ses'.map = ses.map /\ ses'.phase = "INJECTING"
            /\ \/ ses.phase = "INJECTING"
               \/ ses.phase = "WAIT_COMMIT" /\ msg.type = "ACCEPTED" /\ msg.arg = ses.map
        BY <1>5, <1>9, <2>7 DEF Hears, Sends, Waiting
      <3> QED
        BY <1>4, <1>8, <2>1, <3>1 DEF Retires
    <2> QED
      BY <1>9, <2>2, <2>3, <2>4, <2>5, <2>6, <2>7 DEF Sends
  <1> QED
    BY <1>11

\* A session that waited for the link is at rest, and then begins at most.
LEMMA RetireBack ==
  ASSUME IInv, AInv, ses.phase = "WAIT_LINK", ~late, late' = FALSE,
         NEW msg \in Messages \cup {None}, Retire(msg)
  PROVE  \E f : Retires(msg, f)
  <1> DEFINE up == SetLink(ses, TRUE)
             first == Consume(up, set, held)
             waiting == ConsumedBySet(set, held)
             second == Consume(first, waiting, msg)
             out == FillTx(second)
  <1>1. SessionSound(ses) /\ SetSound(set) /\ ses \in Sessions /\ held \in Messages \cup {None}
    BY DEF IInv, McuTyped, SessionSound
  <1>2. SessionSound(up) /\ up.phase \in Waiting /\ up.desc = ses.desc
    BY <1>1, SetLinkSound DEF SetLink, Sessions, resting_phase, Waiting
  <1> HIDE DEF up
  <1>3. up.phase # "WAIT_LINK"
    BY <1>2 DEF Waiting
  <1>4. SessionSound(first) /\ Hears(up, held, first)
    BY <1>1, <1>2, <1>3, ConsumeSound, ConsumeHears
  <1>5. /\ first.phase \in Waiting \/ (first.phase = "SEND_BEGIN" /\ first.desc = ses.desc)
        /\ first.desc = ses.desc \/ (held.type = "DESCRIPTOR" /\ first.desc = held.desc)
    BY <1>2, <1>4 DEF Hears, Waiting
  <1>6. SetSound(waiting)
    BY <1>1, ConsumedBySetSound
  <1>7. first.phase # "WAIT_LINK"
    BY <1>5 DEF Waiting
  <1> HIDE DEF first, waiting
  <1>8. SessionSound(second) /\ Hears(first, msg, second)
    BY <1>4, <1>6, <1>7, ConsumeSound, ConsumeHears
  <1>9. /\ second.phase \in Waiting \/ (second.phase = "SEND_BEGIN" /\ second.desc = first.desc)
        /\ second.desc = first.desc \/ (msg.type = "DESCRIPTOR" /\ second.desc = msg.desc)
    BY <1>5, <1>8 DEF Hears, Waiting
  <1>10. second.phase # "WAIT_LINK"
    BY <1>9 DEF Waiting
  <1> HIDE DEF second
  <1>11. Sends(second, out.session, out.frame)
    BY <1>8, <1>10, FillSends
  <1>12. ses' = out.session /\ held' = None /\ ring' = <<ring[2], out.frame>>
    BY DEF Retire, up, first, waiting, second
  <1> DEFINE f == out.frame
  <1>13. Rb' = f /\ Ra' = Rb
    BY <1>12 DEF Ra, Rb
  <1> HIDE DEF out
  <1>14. Sends(second, ses', f)
    BY <1>11, <1>12
  <1> HIDE DEF f
  <1>15. /\ f = Idle \/ (f \in Frames /\ f.desc = ses'.desc /\ f.map = ses'.map)
         /\ \/ ses'.desc = ses.desc
            \/ \E m \in {held, msg} : m.type = "DESCRIPTOR" /\ ses'.desc = m.desc
    BY <1>5, <1>9, <1>14 DEF Sends
  <1>16. CASE second.phase \in Waiting
    <2>1. Idling' /\ f = Idle
      BY <1>14, <1>16 DEF Sends, Waiting, Idling
    <2> QED
      BY <1>12, <1>13, <1>15, <2>1 DEF Retires
  <1>17. CASE second.phase = "SEND_BEGIN"
    <2>1. Begun' /\ f.type = "MAP_BEGIN"
      BY <1>14, <1>17 DEF Sends, Waiting, Begun
    <2>2. ses'.desc = first.desc
      BY <1>9, <1>14, <1>17 DEF Sends, Waiting
    <2>3. first.desc = ses.desc
      <3>1. first.phase \in {"WAIT_REPORT", "SEND_BEGIN"}
        BY <1>8, <1>17 DEF Hears
      <3> QED
        BY <1>2, <1>4, <1>5, <3>1 DEF Hears, Waiting
    <2> QED
      BY <1>12, <1>13, <1>15, <2>1, <2>2, <2>3 DEF Retires
  <1> QED
    BY <1>9, <1>16, <1>17

-----------------------------------------------------------------------------
\* What a slot does to the plane, which has nothing left to do: a command that
\* is not waited for has left, and what it says has been sent.
LEMMA SlotPlane ==
  ASSUME IInv, AInv, Slot
  PROVE  /\ link = "up" /\ link' = "up" /\ tx' = None
         /\ UNCHANGED <<session, failed, generation, store, status, export, monitor>>
         /\ store.state # "VALIDATE" /\ (tx # None \/ status = None)
         /\ Inside' = Inside \/ (Ra # Idle /\ Inside' = Inside \cup {Ra})
              \/ (late /\ Rb # Idle /\ Inside' = Inside \cup {Rb})
         /\ Inside = {} \/ (store.bank.valid /\ \E f \in Inside : is_command(f))
  <1>1. /\ link = "up" /\ link' = "up" /\ tx' = None /\ link_ready
        /\ UNCHANGED <<session, failed, generation, staged, store, status, export, monitor>>
    BY DEF Slot, deviceVars, IInv, Forgotten
  <1>2. store.state # "VALIDATE" /\ (tx # None \/ status = None)
    BY <1>1 DEF Slot, Settled
  <1>3. Inside = {} \/ (store.bank.valid /\ \E f \in Inside : is_command(f))
    <2>1. CASE staged = None
      <3>1. rx = None
        BY <2>1 DEF Slot, Settled
      <3> QED
        BY <2>1, <3>1 DEF Inside
    <2>2. CASE staged # None
      <3>1. store.bank.valid /\ is_command(staged.frame)
        BY <2>2 DEF Slot, Settled, CommandWaits, command_fresh, active_valid
      <3>2. staged.frame \in Inside
        BY <2>2, StagedFrame, NoFrames DEF Inside
      <3> QED
        BY <3>1, <3>2
    <2> QED
      BY <2>1, <2>2
  <1>4. rx' = rx \/ (rx = None /\ rx' = ring[1] /\ ring[1] \in Frames)
    <2>1. rx' = rx \/ Published(ring[1])
      BY DEF Slot
    <2>2. ring[1] \in Frames \cup {Idle} /\ Idle.type = "IDLE"
      BY DEF IInv, McuTyped, Idle, Frame
    <2> QED
      BY <2>1, <2>2 DEF Published
  <1>5. \/ Inside' = Inside
        \/ ring[1] \in Frames /\ Inside' = Inside \cup {ring[1]}
    BY <1>1, <1>4, NoFrames DEF Inside
  <1>6. ring[1] = IF late THEN Rb ELSE Ra
    BY DEF Ra, Rb
  <1> QED
    BY <1>1, <1>2, <1>3, <1>5, <1>6, NoFrames

\* The banks rotate: the plane may get the second one before the first.
LEMMA RotatesA ==
  ASSUME IInv, AInv, Slot, SlotLate \/ SlotStalled
  PROVE  AInv'
  <1>1. /\ link = "up" /\ link' = "up" /\ tx' = None
        /\ UNCHANGED <<session, failed, generation, store, status, export, monitor>>
        /\ store.state # "VALIDATE" /\ (tx # None \/ status = None)
        /\ Inside = {} \/ (store.bank.valid /\ \E f \in Inside : is_command(f))
    BY SlotPlane
  <1>2. Inside' \subseteq Inside \cup ({Ra, Rb} \ {Idle})
    BY SlotPlane
  <1>3. ses' = ses /\ held' = held /\ blind' = blind /\ ring' = <<ring[2], ring[1]>>
        /\ Ra' = Ra /\ Rb' = Rb
    BY DEF SlotLate, SlotStalled, Rotate, IInv, McuTyped, Ra, Rb
  <1>4. /\ (Begun' <=> Begun) /\ (Listing' <=> Listing) /\ (Proposed' <=> Proposed)
        /\ (Idling' <=> Idling) /\ (Seen' <=> Seen)
    BY <1>1, <1>3 DEF Begun, Listing, Proposed, Idling, Seen
  <1>5. None.type \notin {"DESCRIPTOR", "ACCEPTED"}
    BY DEF None
  <1>6. Told'
    <2>1. ring = IdleRing => ring' = IdleRing /\ Ra = Idle /\ Rb = Idle
      BY <1>3 DEF IdleRing, Ra, Rb
    <2> QED
      BY <1>1, <1>2, <1>3, <2>1 DEF AInv, Told
  <1>7. Sources' /\ Heard'
    BY <1>1, <1>3, <1>5 DEF AInv, Sources, Heard
  <1>8. NotAhead'
    BY <1>1, <1>2, <1>3 DEF AInv, NotAhead
  <1>9. Unmapped /\ Rb.desc # generation => Unmapped'
    BY <1>1, <1>2, <1>3 DEF Unmapped
  <1>10. Foreign'
    BY <1>1, <1>3, <1>9 DEF AInv, Foreign
  <1>11. Spent'
    <2> SUFFICES ASSUME ses.phase # "INJECTING", NEW f \in Inside' \cup {Ra, Rb}, is_command(f)
                 PROVE  Unmapped' /\ (Begun \/ Idling)
      BY <1>3, <1>4 DEF Spent, is_command
    <2>1. f \in Inside \cup {Ra, Rb}
      BY <1>2
    <2>2. Unmapped /\ (Begun \/ Idling)
      BY <1>1, <2>1 DEF AInv, Spent
    <2>3. Inside = {}
      BY <1>1, <2>2 DEF Unmapped
    <2>4. ~is_command(Idle) /\ Idle.desc # generation
      BY DeviceNumbers
    <2>5. Begun => ~is_command(Ra) /\ ~is_command(Rb)
      BY <2>4 DEF AInv, BanksFollow, is_command, Commands
    <2>6. Idling /\ Rb = Idle
      BY <2>1, <2>2, <2>3, <2>5 DEF AInv, BanksFollow
    <2> QED
      BY <1>9, <2>2, <2>4, <2>6
  <1>12. BanksFollow'
    BY <1>3, <1>4 DEF AInv, BanksFollow
  <1>13. PlaneFollows'
    <2>1. Listing => \A f \in Inside' : f.type # "MAP_COMMIT"
      BY <1>2 DEF AInv, BanksFollow, PlaneFollows
    <2>2. Listing => status = None
      BY <1>1 DEF AInv, PlaneFollows
    <2>3. Proposed => \A f \in Inside' : f.map = ses.map
      BY <1>2 DEF AInv, BanksFollow, PlaneFollows
    <2> QED
      BY <1>1, <1>3, <1>4, <2>1, <2>2, <2>3 DEF PlaneFollows
  <1>14. Promoted' => Promoted
    BY <1>1, <1>3, <1>5 DEF Promoted
  <1>15. Agreement'
    BY <1>1, <1>3, <1>4, <1>14 DEF AInv, Agreement
  <1> QED
    BY <1>6, <1>7, <1>8, <1>10, <1>11, <1>12, <1>13, <1>15 DEF AInv

\* Before a map is complete, or an entry is sent, no frame of an earlier upload
\* waits in the plane, and no answer to one waits to be sent.
LEMMA UploadAlone ==
  ASSUME IInv, AInv, Slot, Begun \/ Listing
  PROVE  Inside = {} /\ (Listing => status = None)
  <1>1. /\ link = "up" /\ (tx # None \/ status = None)
        /\ Inside = {} \/ (store.bank.valid /\ \E f \in Inside : is_command(f))
    BY SlotPlane
  <1>2. ses.phase # "INJECTING"
    BY DEF Begun, Listing
  <1>3. Inside = {}
    BY <1>1, <1>2 DEF AInv, Spent, Unmapped
  <1>4. Listing => status = None
    BY <1>1 DEF AInv, PlaneFollows
  <1> QED
    BY <1>3, <1>4

\* The retirement interrupt in time.
LEMMA RetiresA ==
  ASSUME IInv, AInv, Slot, ~late, late' = FALSE, NEW msg \in {tx, None}, Retire(msg)
  PROVE  AInv'
  <1>1. msg \in Messages \cup {None}
    BY DEF IInv, PlaneTyped
  <1>2. PICK f : Retires(msg, f)
    BY <1>1, RetireUp, RetireBack
  <1>3. /\ link = "up" /\ link' = "up" /\ tx' = None
        /\ UNCHANGED <<session, failed, generation, store, status, export, monitor>>
        /\ store.state # "VALIDATE" /\ (tx # None \/ status = None)
        /\ Inside = {} \/ (store.bank.valid /\ \E e \in Inside : is_command(e))
    BY SlotPlane
  <1>4. Inside' \subseteq Inside \cup ({Ra} \ {Idle})
    BY SlotPlane
  <1>5. /\ Rb' = f /\ Ra' = Rb /\ held' = None
        /\ f = Idle \/ (f \in Frames /\ f.desc = ses'.desc /\ f.map = ses'.map)
        /\ \/ ses'.desc = ses.desc
           \/ \E m \in {held, msg} : m.type = "DESCRIPTOR" /\ ses'.desc = m.desc
    BY <1>2 DEF Retires
  <1>6. /\ blind' <=> (blind /\ ses'.desc = ses.desc /\ ses'.map = ses.map)
        /\ None.type \notin {"DESCRIPTOR", "ACCEPTED"}
    BY DEF Retire, Sighted, None
  <1>7. /\ generation \in Nat \ {0} /\ Idle.desc = 0 /\ ~is_command(Idle)
        /\ ses.cursor \in Nat
    BY DeviceNumbers DEF IInv, McuTyped, SessionSound, Sessions
  <1> DEFINE Rests == /\ Idling' /\ f = Idle
                      /\ ses.phase \in {"SEND_ENTRY", "SEND_COMMIT", "INJECTING"} => ses'.desc # ses.desc
             Begins == (Idling \/ ses.phase = "WAIT_LINK") /\ Begun' /\ f.type = "MAP_BEGIN"
             Same == ses'.desc = ses.desc /\ ses'.map = ses.map
             Lists == /\ Same /\ ses.phase = "SEND_ENTRY" /\ Listing' /\ ses'.cursor = ses.cursor + 1
                      /\ f.type = "MAP_ENTRY"
             Proposes == /\ Same /\ ses.phase = "SEND_COMMIT" /\ ses'.phase = "WAIT_COMMIT"
                         /\ f.type = "MAP_COMMIT"
             Waits == Same /\ ses.phase = "WAIT_COMMIT" /\ ses'.phase = "WAIT_COMMIT" /\ f = Idle
             IsTold == /\ Same /\ ses.phase = "WAIT_COMMIT" /\ ses'.phase = "INJECTING"
                       /\ msg.type = "ACCEPTED" /\ msg.arg = ses.map
             Injects == Same /\ ses.phase = "INJECTING" /\ ses'.phase = "INJECTING"
  <1>8. Rests \/ Begins \/ Lists \/ Proposes \/ Waits \/ IsTold \/ Injects
    BY <1>2 DEF Retires
  <1>9. /\ Rests => /\ ~Begun' /\ ~Listing' /\ ~Proposed'
                    /\ ses'.phase \in {"WAIT_DESCRIPTOR", "NO_MOUSE", "WAIT_REPORT"}
        /\ Begins => ~Idling' /\ ~Listing' /\ ~Proposed' /\ ses'.phase = "SEND_ENTRY"
        /\ Lists => ~Idling' /\ ~Begun' /\ ~Proposed' /\ ses'.phase \in {"SEND_ENTRY", "SEND_COMMIT"}
        /\ Proposes \/ Waits \/ IsTold \/ Injects => ~Idling' /\ ~Begun' /\ ~Listing' /\ Proposed'
        /\ Waits \/ IsTold \/ Injects => Proposed
        /\ Lists => Begun \/ Listing
        /\ Proposes => Listing
    BY <1>7 DEF AInv, Told, Begun, Listing, Proposed, Idling
  <1> HIDE DEF Rests, Begins, Lists, Proposes, Waits, IsTold, Injects
  <1>10. ses'.phase \notin {"WAIT_LINK", "SEND_BEGIN"} /\ (ses'.phase = "SEND_COMMIT" => ses'.cursor # 0)
    BY <1>8, <1>9 DEF Lists, Proposes, Waits, IsTold, Injects, Listing
  <1>11. Told'
    BY <1>3, <1>5, <1>10 DEF Told
  <1>12. Sources'
    BY <1>3 DEF AInv, Sources
  <1>13. /\ ses'.desc <= generation
         /\ ses'.desc # ses.desc => ses.desc # generation
         /\ ~session /\ ~failed => ses'.desc # generation
    BY <1>5, <1>6 DEF AInv, Heard
  <1>14. Heard'
    BY <1>3, <1>5, <1>6, <1>13 DEF AInv, Heard
  <1>15. f.desc <= generation
    BY <1>5, <1>7, <1>13
  <1>16. NotAhead'
    BY <1>3, <1>4, <1>5, <1>15 DEF AInv, NotAhead
  <1>17. Unmapped /\ Rb.desc # generation => Unmapped'
    BY <1>3, <1>4, <1>5 DEF Unmapped
  <1>18. Foreign'
    <2> SUFFICES ASSUME ses'.desc # generation PROVE Unmapped' /\ f.desc # generation
      BY <1>3, <1>5 DEF Foreign
    <2>1. ses.desc # generation
      BY <1>13
    <2>2. Unmapped /\ Rb.desc # generation
      BY <2>1 DEF AInv, Foreign
    <2> QED
      BY <1>5, <1>7, <1>17, <2>2
  <1>19. Spent'
    <2> SUFFICES ASSUME ses'.phase # "INJECTING", NEW c \in Inside' \cup {Rb, f}, is_command(c)
                 PROVE  Unmapped' /\ (Begun' \/ Idling')
      BY <1>5 DEF Spent, is_command
    <2>1. Rests \/ Begins \/ Lists \/ Proposes \/ Waits
      BY <1>8 DEF IsTold, Injects
    <2>2. c # f
      BY <1>7, <2>1 DEF is_command, Commands, Rests, Begins, Lists, Proposes, Waits
    <2>3. c \in Inside \cup {Ra, Rb}
      BY <1>4, <2>2
    <2>4. CASE ses.phase = "INJECTING"
      <3>1. Rests /\ ses'.desc # ses.desc
        BY <2>1, <2>4 DEF Rests, Begins, Lists, Proposes, Waits, Idling
      <3>2. Unmapped /\ Rb.desc # generation
        BY <1>13, <3>1 DEF AInv, Foreign
      <3> QED
        BY <1>17, <3>1, <3>2 DEF Rests
    <2>5. CASE ses.phase # "INJECTING"
      <3>1. Unmapped /\ (Begun \/ Idling)
        BY <1>3, <2>3, <2>5 DEF AInv, Spent
      <3>2. Inside = {}
        BY <1>3, <3>1 DEF Unmapped
      <3>3. Begun => ~is_command(Ra) /\ ~is_command(Rb)
        BY <1>7 DEF AInv, BanksFollow, is_command, Commands
      <3>4. Idling /\ Rb = Idle
        BY <2>3, <3>1, <3>2, <3>3 DEF AInv, BanksFollow
      <3>5. Rests \/ Begins
        BY <2>1, <3>4 DEF Idling, Lists, Proposes, Waits
      <3> QED
        BY <1>7, <1>17, <3>1, <3>4, <3>5 DEF Rests, Begins
    <2> QED
      BY <2>4, <2>5
  <1>20. BanksFollow'
    <2>1. CASE Rests
      BY <1>5, <1>9, <2>1 DEF BanksFollow, Rests
    <2>2. CASE Begins
      <3>1. Rb = Idle
        BY <1>3, <2>2 DEF Begins, AInv, BanksFollow, Told, IdleRing, Rb
      <3> QED
        BY <1>5, <1>9, <2>2, <3>1 DEF BanksFollow, Begins
    <2>3. CASE Lists
      <3>1. Rb = Idle \/ (Rb.type \in {"MAP_BEGIN", "MAP_ENTRY"} /\ Rb.map = ses.map)
        BY <1>9, <2>3 DEF AInv, BanksFollow
      <3> QED
        BY <1>5, <1>9, <2>3, <3>1 DEF BanksFollow, Lists
    <2>4. CASE Proposes \/ Waits \/ IsTold \/ Injects
      <3>1. Rb = Idle \/ Rb.map = ses.map
        BY <1>9, <2>4 DEF AInv, BanksFollow
      <3>2. ses'.map = ses.map
        BY <2>4 DEF Proposes, Waits, IsTold, Injects
      <3> QED
        BY <1>5, <1>9, <2>4, <3>1, <3>2 DEF BanksFollow
    <2> QED
      BY <1>8, <2>1, <2>2, <2>3, <2>4
  <1>21. PlaneFollows'
    <2>1. CASE Rests \/ Begins
      BY <1>9, <2>1 DEF PlaneFollows
    <2>2. CASE Lists
      <3>1. Inside = {} /\ (Listing => status = None)
        BY <1>9, <2>2, UploadAlone
      <3>2. Ra = Idle \/ Ra.type \in {"MAP_BEGIN", "MAP_ENTRY"}
        BY <1>9, <2>2 DEF AInv, BanksFollow
      <3>3. \A e \in Inside' : e.type # "MAP_COMMIT"
        BY <1>4, <3>1, <3>2
      <3>4. status = None \/ ses'.cursor = 1
        BY <1>9, <2>2, <3>1 DEF Lists, Begun
      <3> QED
        BY <1>3, <1>9, <2>2, <3>3, <3>4 DEF PlaneFollows
    <2>3. CASE Proposes
      <3>1. Inside = {} /\ (Ra = Idle \/ Ra.map = ses.map)
        BY <1>9, <2>3, UploadAlone DEF AInv, BanksFollow
      <3>2. \A e \in Inside' : e.map = ses'.map
        BY <1>4, <2>3, <3>1 DEF Proposes
      <3> QED
        BY <1>3, <1>9, <2>3, <3>2 DEF PlaneFollows
    <2>4. CASE Waits \/ IsTold \/ Injects
      <3>1. Ra = Idle \/ Ra.map = ses.map
        BY <1>9, <2>4 DEF AInv, BanksFollow
      <3>2. \A e \in Inside' : e.map = ses.map
        BY <1>4, <1>9, <2>4, <3>1 DEF AInv, PlaneFollows
      <3>3. ses'.map = ses.map
        BY <2>4 DEF Waits, IsTold, Injects
      <3> QED
        BY <1>3, <1>9, <2>4, <3>2, <3>3 DEF PlaneFollows
    <2> QED
      BY <1>8, <2>1, <2>2, <2>3, <2>4
  <1>22. Agreement'
    <2> SUFFICES ASSUME Seen', Promoted'
                 PROVE  store.bank.valid /\ store.bank.map = ses'.map
      BY <1>3 DEF Agreement
    <2>1. Proposes \/ Waits \/ IsTold \/ Injects
      BY <1>8, <1>9 DEF Promoted
    <2>2. ses'.desc = ses.desc /\ ses'.map = ses.map /\ ses.phase # "WAIT_LINK"
      BY <2>1 DEF Proposes, Waits, IsTold, Injects
    <2>3. Seen
      BY <1>3, <1>6, <2>2 DEF Seen
    <2>4. ~Proposes
      <3> SUFFICES ASSUME Proposes PROVE FALSE
        OBVIOUS
      <3>1. status = None
        BY <1>9, UploadAlone
      <3> QED
        BY <1>3, <1>6, <3>1 DEF Proposes, Promoted
    <2>5. Promoted
      <3>1. CASE Waits
        BY <1>3, <1>6, <2>2, <3>1 DEF Waits, Promoted
      <3>2. CASE IsTold
        BY <1>6, <3>2 DEF IsTold, Promoted
      <3>3. CASE Injects
        BY <3>3 DEF Injects, Promoted
      <3> QED
        BY <2>1, <2>4, <3>1, <3>2, <3>3
    <2> QED
      BY <2>2, <2>3, <2>5 DEF AInv, Agreement
  <1> QED
    BY <1>11, <1>12, <1>14, <1>16, <1>18, <1>19, <1>20, <1>21, <1>22 DEF AInv

\* A slot.
LEMMA SlotA ==
  ASSUME IInv, AInv, Slot
  PROVE  AInv'
  <1>1. CASE SlotLate \/ SlotStalled
    BY <1>1, RotatesA
  <1>2. ASSUME NEW cut \in BOOLEAN, SlotOnTime(cut)
        PROVE  AInv'
    BY <1>2, RetiresA DEF SlotOnTime, Received
  <1> QED
    BY <1>1, <1>2 DEF Slot

-----------------------------------------------------------------------------
\* The link starts in AInv.
THEOREM InitAInv == Init => AInv
  <1> SUFFICES ASSUME Init PROVE AInv
    OBVIOUS
  <1>1. /\ link = "off" /\ ring = IdleRing /\ Ra = Idle /\ Rb = Idle /\ held = None /\ tx = None
        /\ rx = None /\ staged = None /\ status = None /\ monitor = None /\ export.next = 0
        /\ ~session /\ ~failed /\ generation = 1 /\ ses.phase = "WAIT_LINK" /\ ses.desc = 0
        /\ store.state = "IDLE" /\ ~store.bank.valid
    BY DEF Init, PlaneInit, IdleRing, Ra, Rb, SessionInit, StoreInit, NoBank
  <1>2. Inside = {} /\ Idle.desc = 0 /\ None.type # "DESCRIPTOR"
    BY <1>1 DEF Inside, Idle, Frame, None
  <1>3. ~Begun /\ ~Listing /\ ~Proposed /\ ~Idling /\ ~Seen
    BY <1>1 DEF Begun, Listing, Proposed, Idling, Seen
  <1>4. Told /\ Sources
    BY <1>1, <1>2 DEF Told, Sources
  <1>5. Heard /\ NotAhead /\ Foreign
    BY <1>1, <1>2 DEF Heard, NotAhead, Foreign, Unmapped
  <1>6. Spent /\ BanksFollow /\ PlaneFollows /\ Agreement
    BY <1>1, <1>3 DEF Spent, BanksFollow, PlaneFollows, Agreement
  <1> QED
    BY <1>4, <1>5, <1>6 DEF AInv

\* Every step keeps AInv.
THEOREM NextAInv == IInv /\ AInv /\ [Next]_vars => AInv'
  <1> SUFFICES ASSUME IInv, AInv, [Next]_vars PROVE AInv'
    OBVIOUS
  <1>1. CASE Slot
    BY <1>1, SlotA
  <1>2. CASE PlaneWork /\ McuUnchanged
    <2>1. UNCHANGED <<mcuVars, blind>>
      BY <1>2 DEF McuUnchanged, historyVars
    <2>2. CASE Stage
      BY <2>1, <2>2, StageA
    <2>3. CASE Accept
      BY <2>1, <2>3, LeavesA DEF Accept
    <2>4. CASE Validate
      BY <2>1, <2>4, ValidateA
    <2>5. CASE ExportStart \/ Fill
      BY <2>1, <2>5, TransmitA
    <2> QED
      BY <1>2, <2>2, <2>3, <2>4, <2>5 DEF PlaneWork
  <1>3. CASE EngineCommits
    BY <1>3, CommitA DEF EngineCommits
  <1>4. CASE CommandLeaves /\ McuUnchanged
    BY <1>4, CommitA DEF McuUnchanged, historyVars
  <1>5. CASE Device
    <2>1. UNCHANGED <<mcuVars, blind>>
      BY <1>5 DEF Device, McuUnchanged, historyVars
    <2> QED
      BY <1>5, <2>1, PollFailureA, DetachA, EnumeratedA DEF Device
  <1>6. CASE \E i \in Interfaces(generation) : Report(i) /\ McuUnchanged
    BY <1>6, TransmitA DEF McuUnchanged, historyVars
  <1>7. CASE Service \/ Offer \/ \E kind \in Kinds : Request(kind)
    BY <1>7, ForegroundA
  <1>8. CASE ReadyLow \/ SlotLow \/ RequestsOff \/ ReadyHigh \/ Reset
    BY <1>8, ReadyLowA, SlotLowA, RequestsOffA, ReadyHighA, ResetA
  <1>9. CASE UNCHANGED vars
    BY <1>9, SessionA DEF vars, mcuVars, historyVars
  <1> QED
    BY <1>1, <1>2, <1>3, <1>4, <1>5, <1>6, <1>7, <1>8, <1>9 DEF Next

\* AInv is an invariant of the link, however often generations come round.
THEOREM AgreementInvariant == Spec => [](IInv /\ AInv)
  <1>1. Init => IInv /\ AInv
    BY InitIInv, InitAInv
  <1>2. IInv /\ AInv /\ [Next]_vars => IInv' /\ AInv'
    BY NextIInv, NextAInv
  <1> QED
    BY <1>1, <1>2, PTL DEF Spec

\* A session that injects, and was told of every loss of the link, holds the map
\* that is active for the device attached (inj_session.c observe_map_status,
\* injection_map.py commit): whatever is lost, late, revoked or restarted, and
\* also when the generations of maps come round.
THEOREM MapAgreed == Spec => []MapAgreementSeen
  <1>1. IInv /\ AInv => MapAgreementSeen
    <2> SUFFICES ASSUME IInv, AInv, ~blind, ses.phase = "INJECTING", link = "up", session,
                        ses.desc = generation
                 PROVE  active_valid(store, generation) /\ store.bank.map = ses.active
      BY DEF MapAgreementSeen, MapAgreement
    <2>1. Seen /\ Promoted
      BY DEF Seen, Promoted
    <2>2. store.bank.valid /\ store.bank.map = ses.map
      BY <2>1 DEF AInv, Agreement
    <2>3. ses.active = ses.map
      BY DEF IInv, McuTyped, SessionSound
    <2>4. store.bank.desc = generation /\ ~store.latched
      BY <2>2 DEF IInv, BankSound, Forgotten
    <2> QED
      BY <2>2, <2>3, <2>4 DEF active_valid
  <1> QED
    BY <1>1, AgreementInvariant, PTL

-----------------------------------------------------------------------------
(***************************************************************************)
(* The verdict NO_MOUSE is right.                                          *)
(*                                                                         *)
(* The session gives it after SettleSlots quiet slots, so the invariant    *)
(* bounds the slots that may pass with a descriptor still to come: while   *)
(* nothing is lost, what is missing is exported at once, and only a        *)
(* MAP_STATUS goes before it, one for each MAP_COMMIT still in flight when *)
(* the device went, and a report the queue already had.                    *)
(***************************************************************************)

\* The interfaces whose descriptors a set has, if it is of the device attached.
Have(d) == IF d.desc = generation THEN {d.slots[j] : j \in DOMAIN d.slots} ELSE {}
Missing == Interfaces(generation) \ Have(set)

\* A session and a set know of the same descriptors; without a layout, every
\* descriptor judged was one that nothing can be injected into.
Follows(s, d) ==
  /\ d.desc = s.desc /\ s.complete = DOMAIN d.slots
  /\ s.layout = NoLayout =>
       \A j \in s.judged : j \in DOMAIN d.slots /\ Devices[s.desc][d.slots[j]] = "NONE"
  /\ s.phase \in {"WAIT_DESCRIPTOR", "NO_MOUSE"} => s.layout = NoLayout
  /\ s.phase = "WAIT_LINK" => s.settle = 0

SetFollows == Follows(ses, set)

\* As long as nothing was lost, what is missing will be exported or is on its way.
Coming ==
  session /\ ~lost /\ link = "up" =>
    \A i \in Missing :
      \/ export_pending
      \/ export.next # 0 /\ export.next <= i
      \/ tx.type = "DESCRIPTOR" /\ tx.desc = generation /\ tx.arg = i

\* The slots that may bring something else before the next descriptor.
One(b) == IF b THEN 1 ELSE 0
IsCommit(f) == f.type = "MAP_COMMIT"
Other == IF tx = None THEN export.next = 0 ELSE tx.type # "DESCRIPTOR"
Staging == staged # None /\ IsCommit(staged.frame)
Between ==
  One(Other) + One(status # None) + One(store.state = "VALIDATE") + One(Staging)
  + One(IsCommit(rx)) + One(IsCommit(Ra)) + One(IsCommit(Rb))

Listening == session /\ ~lost /\ ses.desc = generation
Patient == Listening /\ ses.phase = "WAIT_DESCRIPTOR" /\ Missing # {} => ses.settle + Between <= 8

NothingThere == \A i \in Interfaces(generation) : Devices[generation][i] = "NONE"
Verdict == Listening /\ (ses.no_mouse \/ ses.phase = "NO_MOUSE") => NothingThere

VInv == SetFollows /\ Coming /\ Patient /\ Verdict

-----------------------------------------------------------------------------
\* Push keeps the slots of its generation and has one for the interface.
LEMMA PushSlots ==
  ASSUME NEW d, SetSound(d), NEW g \in Generations, NEW i \in Interfaces(g),
         NEW old, old = Retargeted(d, g), NEW new, new = Push(d, g, i)
  PROVE  /\ old.desc = g /\ new.desc = g
         /\ old = d \/ (d.desc # g /\ old.slots = <<>>)
         /\ \A j \in DOMAIN old.slots : new.slots[j] = old.slots[j]
         /\ DOMAIN new.slots = DOMAIN old.slots \cup
              IF newly_complete(d, g, i) THEN {PushedSlot(d, g, i)} ELSE {}
         /\ \E j \in DOMAIN new.slots : new.slots[j] = i
  <1> DEFINE edge == IF newly_complete(d, g, i) THEN {PushedSlot(d, g, i)} ELSE {}
  <1>1. /\ old.desc = g
        /\ old = d \/ (d.desc # g /\ old.slots = <<>>)
        /\ old \in [desc : Generations \cup {0}, slots : Seq(Nat), dirty : SUBSET Nat]
    BY RetargetedSound DEF SetSound
  <1>2. i \in Nat
    BY PlaneAssumption DEF Interfaces, Generations
  <1>4. CASE Holds(old, i)
    <2>1. new = old /\ ~newly_complete(d, g, i)
      BY <1>4 DEF Push, newly_complete
    <2>2. \E j \in DOMAIN old.slots : old.slots[j] = i
      BY <1>4 DEF Holds, complete_mask
    <2> QED
      BY <1>1, <2>1, <2>2
  <1>5. CASE ~Holds(old, i)
    <2> DEFINE slots == Append(old.slots, i)
               place == Len(old.slots) + 1
    <2>1. slots \in Seq(Nat) /\ DOMAIN slots = DOMAIN old.slots \cup {place}
      BY <1>1, <1>2
    <2>2. (\A j \in DOMAIN old.slots : slots[j] = old.slots[j]) /\ slots[place] = i
      BY <1>1, <1>2
    <2>3. slot_for(old, i) = place
      BY <1>5 DEF slot_for
    <2>4. edge = {place}
      BY <1>5, <2>3 DEF newly_complete, PushedSlot
    <2> DEFINE added == [old EXCEPT !.slots = slots, !.dirty = @ \union {slot_for(old, i)}]
    <2>5. new = added
      BY <1>5 DEF Push
    <2> HIDE DEF slots, place
    <2>6. added.desc = g /\ added.slots = slots
      BY <1>1
    <2>7. new.desc = g /\ new.slots = slots
      BY <2>5, <2>6
    <2>8. place \in DOMAIN slots /\ slots[place] = i
      BY <2>1, <2>2
    <2> HIDE DEF added
    <2>9. DOMAIN new.slots = DOMAIN old.slots \cup edge
      BY <2>1, <2>4, <2>7
    <2> QED
      BY <1>1, <2>2, <2>7, <2>8, <2>9
  <1> QED
    BY <1>4, <1>5

\* link_inject_consume on the set: nothing of the device attached is forgotten
\* for a message of it, and what a descriptor brings is there.
LEMMA ConsumedHave ==
  ASSUME NEW d, SetSound(d), NEW msg \in Messages \cup {None}
  PROVE  LET e == ConsumedBySet(d, msg)
         IN  /\ msg.type # "DESCRIPTOR" => e = d
             /\ msg.type = "DESCRIPTOR" /\ msg.desc = generation =>
                  e.desc = generation /\ Have(d) \subseteq Have(e) /\ msg.arg \in Have(e)
             /\ msg.type = "DESCRIPTOR" => e.desc = msg.desc
  <1>1. CASE msg.type # "DESCRIPTOR"
    BY <1>1 DEF ConsumedBySet
  <1>2. CASE msg.type = "DESCRIPTOR"
    <2>1. msg.desc \in Generations /\ msg.arg \in Interfaces(msg.desc)
      BY <1>2 DEF None, Messages
    <2> DEFINE old == Retargeted(d, msg.desc)
               e == Push(d, msg.desc, msg.arg)
    <2>2. /\ e.desc = msg.desc
          /\ old = d \/ d.desc # msg.desc
          /\ \A j \in DOMAIN old.slots : j \in DOMAIN e.slots /\ e.slots[j] = old.slots[j]
          /\ \E j \in DOMAIN e.slots : e.slots[j] = msg.arg
      BY <2>1, PushSlots
    <2>3. ConsumedBySet(d, msg) = e
      BY <1>2 DEF ConsumedBySet
    <2> HIDE DEF old, e
    <2> QED
      BY <1>2, <2>2, <2>3 DEF Have
  <1> QED
    BY <1>1, <1>2

-----------------------------------------------------------------------------
\* set_link, up or down.
LEMMA LinkFollows ==
  ASSUME NEW s \in Sessions, NEW d, Follows(s, d), NEW up \in BOOLEAN
  PROVE  LET t == SetLink(s, up)
         IN  /\ Follows(t, d) /\ t.desc = s.desc /\ t.no_mouse = s.no_mouse
             /\ t.phase = "NO_MOUSE" => s.phase = "NO_MOUSE" \/ s.no_mouse
             /\ s.phase = "WAIT_LINK" => t.settle = 0
  <1> DEFINE down == [s EXCEPT !.phase = "WAIT_LINK", !.seq = 0, !.cursor = 0, !.settle = 0, !.wait = 0,
                        !.active = 0, !.req = NoRequest]
             back == [s EXCEPT !.phase = resting_phase(s)]
  <1>1. /\ down.phase = "WAIT_LINK" /\ down.settle = 0 /\ down.desc = s.desc
        /\ down.complete = s.complete /\ down.judged = s.judged /\ down.layout = s.layout
        /\ down.no_mouse = s.no_mouse
    BY DEF Sessions
  <1>2. /\ back.phase = resting_phase(s) /\ back.settle = s.settle /\ back.desc = s.desc
        /\ back.complete = s.complete /\ back.judged = s.judged /\ back.layout = s.layout
        /\ back.no_mouse = s.no_mouse
    BY DEF Sessions
  <1>3. SetLink(s, up) = IF ~up THEN down ELSE IF s.phase = "WAIT_LINK" THEN back ELSE s
    BY DEF SetLink
  <1> HIDE DEF down, back
  <1>4. CASE ~up
    BY <1>1, <1>3, <1>4 DEF Follows
  <1>5. CASE up /\ s.phase = "WAIT_LINK"
    BY <1>2, <1>3, <1>5 DEF Follows, resting_phase
  <1>6. CASE up /\ s.phase # "WAIT_LINK"
    BY <1>3, <1>6
  <1> QED
    BY <1>4, <1>5, <1>6

\* What the session makes of a message, by its type: a descriptor of another
\* device is where it starts, and every descriptor ends the quiet.
Minds(s, msg, t) ==
  /\ msg.type = "DESCRIPTOR" =>
       /\ t.settle = 0 /\ t.desc = msg.desc
       /\ t.no_mouse \/ t.phase = "NO_MOUSE" =>
            t.desc = s.desc /\ t.no_mouse = s.no_mouse /\ t.phase = s.phase
  /\ msg.type # "DESCRIPTOR" =>
       /\ t.settle = s.settle /\ t.desc = s.desc /\ t.no_mouse = s.no_mouse
       /\ t.phase \in {"WAIT_DESCRIPTOR", "NO_MOUSE"} => t.phase = s.phase

\* observe_descriptor follows the set.
LEMMA DescriptorFollows ==
  ASSUME NEW s, SessionSound(s), s.phase # "WAIT_LINK", NEW d, SetSound(d), Follows(s, d),
         NEW msg \in Messages, msg.type = "DESCRIPTOR"
  PROVE  LET t == Consume(s, d, msg)
         IN  Follows(t, ConsumedBySet(d, msg)) /\ Minds(s, msg, t)
  <1> DEFINE g == msg.desc
             i == msg.arg
             old == Retargeted(d, g)
             new == Push(d, g, i)
             edge == IF newly_complete(d, g, i) THEN {PushedSlot(d, g, i)} ELSE {}
             known == adopt_generation(s, g)
             t == [known EXCEPT !.settle = 0, !.complete = @ \union edge]
  <1>1. g \in Generations /\ i \in Interfaces(g) /\ s \in Sessions
    BY DEF Messages, SessionSound
  <1>2. /\ old.desc = g /\ new.desc = g
        /\ old = d \/ (d.desc # g /\ old.slots = <<>>)
        /\ \A j \in DOMAIN old.slots : new.slots[j] = old.slots[j]
        /\ DOMAIN new.slots = DOMAIN old.slots \cup edge
    BY <1>1, PushSlots
  <1>3. known \in Sessions /\ known.desc = g
    BY <1>1, AdoptSound DEF SessionSound
  <1>4. Follows(known, old)
    <2> DEFINE lost_device == forget_device(s, g)
    <2>1. /\ lost_device.desc = g /\ lost_device.complete = {} /\ lost_device.judged = {}
          /\ lost_device.layout = NoLayout /\ lost_device.phase = "WAIT_DESCRIPTOR"
      BY <1>1 DEF forget_device, Sessions
    <2>2. CASE g = s.desc
      <3>1. known = s /\ old = d
        BY <1>2, <2>2 DEF adopt_generation, Follows
      <3> QED
        BY <3>1
    <2>3. CASE g # s.desc
      <3>1. known = lost_device /\ DOMAIN old.slots = {}
        BY <1>2, <2>3 DEF adopt_generation, Follows
      <3> HIDE DEF lost_device
      <3> QED
        BY <1>2, <2>1, <3>1 DEF Follows
    <2> QED
      BY <2>2, <2>3
  <1>5. Minds(s, msg, t)
    <2>1. t.settle = 0 /\ t.desc = known.desc /\ t.no_mouse = known.no_mouse /\ t.phase = known.phase
      BY <1>3 DEF Sessions
    <2>2. g # s.desc => ~known.no_mouse /\ known.phase = "WAIT_DESCRIPTOR"
      BY <1>1 DEF adopt_generation, forget_device, Sessions
    <2>3. g = s.desc => known = s
      BY DEF adopt_generation
    <2> HIDE DEF t, known
    <2> QED
      BY <1>3, <2>1, <2>2, <2>3 DEF Minds
  <1>6. Follows(t, new)
    <2>1. /\ t.desc = g /\ t.complete = known.complete \cup edge /\ t.judged = known.judged
          /\ t.layout = known.layout /\ t.phase = known.phase /\ t.settle = 0
      BY <1>3 DEF Sessions
    <2> HIDE DEF t, known, old, new, edge
    <2>2. t.desc = new.desc /\ t.complete = DOMAIN new.slots
      BY <1>2, <1>4, <2>1 DEF Follows
    <2>3. t.layout = NoLayout =>
            \A j \in t.judged : j \in DOMAIN new.slots /\ Devices[t.desc][new.slots[j]] = "NONE"
      BY <1>2, <1>3, <1>4, <2>1 DEF Follows
    <2> QED
      BY <1>4, <2>1, <2>2, <2>3 DEF Follows
  <1>7. Consume(s, d, msg) = t /\ ConsumedBySet(d, msg) = new
    BY DEF Consume, ObserveDescriptor, ConsumedBySet
  <1> QED
    BY <1>5, <1>6, <1>7

\* link_inject_consume follows the set.
LEMMA ConsumeFollows ==
  ASSUME NEW s, SessionSound(s), s.phase # "WAIT_LINK", NEW d, SetSound(d), Follows(s, d),
         NEW msg \in Messages \cup {None},
         NEW t, t = Consume(s, d, msg), NEW e, e = ConsumedBySet(d, msg)
  PROVE  SessionSound(t) /\ t.phase # "WAIT_LINK" /\ Follows(t, e) /\ Minds(s, msg, t)
  <1>1. SessionSound(t) /\ s \in Sessions
    BY ConsumeSound DEF SessionSound
  <1>2. t.phase # "WAIT_LINK"
    BY ConsumeHears DEF Hears
  <1>3. CASE msg.type = "DESCRIPTOR"
    <2>1. msg \in Messages
      BY <1>3 DEF None
    <2> QED
      BY <1>1, <1>2, <1>3, <2>1, DescriptorFollows
  <1>4. CASE msg.type # "DESCRIPTOR"
    <2>1. e = d
      BY <1>4 DEF ConsumedBySet
    <2>2. /\ t.desc = s.desc /\ t.complete = s.complete /\ t.judged = s.judged /\ t.layout = s.layout
          /\ t.settle = s.settle /\ t.no_mouse = s.no_mouse
          /\ t.phase = s.phase \/ t.phase \in {"SEND_BEGIN", "WAIT_REPORT", "INJECTING"}
      BY <1>1, <1>4 DEF Consume, ObserveReport, begin_upload, ObserveMapStatus, Sessions
    <2>3. Minds(s, msg, t)
      BY <1>4, <2>2 DEF Minds
    <2>4. Follows(t, d)
      BY <2>2 DEF Follows
    <2> QED
      BY <1>1, <1>2, <2>1, <2>3, <2>4
  <1> QED
    BY <1>3, <1>4

\* What the session makes of a slot: it settles, and gives the verdict when it
\* has been quiet long enough.
Quietens(t, u) ==
  /\ u.desc = t.desc
  /\ u.phase = "WAIT_DESCRIPTOR" => t.phase = "WAIT_DESCRIPTOR"
  /\ t.phase = "WAIT_DESCRIPTOR" => u.settle <= t.settle + 1 /\ u.phase \in {t.phase, "NO_MOUSE"}
  /\ u.no_mouse \/ u.phase = "NO_MOUSE" =>
       \/ t.no_mouse \/ t.phase = "NO_MOUSE"
       \/ /\ t.phase = "WAIT_DESCRIPTOR" /\ u.settle = SettleSlots
          /\ t.complete \subseteq t.judged

\* inj_session_fill_tx.
LEMMA FillFollows ==
  ASSUME NEW t, SessionSound(t), NEW d, Follows(t, d), NEW u, u = FillTx(t).session
  PROVE  Follows(u, d) /\ Quietens(t, u)
  <1>1. t \in Sessions /\ t.settle \in Nat /\ SettleSlots \in Nat
    BY SessionAssumption DEF SessionSound, Sessions
  <1>2. CASE t.phase = "WAIT_DESCRIPTOR"
    <2>1. u = settle_step(t)
      BY <1>2 DEF FillTx, Quiet
    <2>2. /\ u.desc = t.desc /\ u.complete = t.complete /\ u.judged = t.judged /\ u.layout = t.layout
          /\ u.settle <= t.settle + 1
          /\ u.phase \in {t.phase, "NO_MOUSE"}
          /\ u.no_mouse \/ u.phase = "NO_MOUSE" =>
               t.no_mouse \/ (u.settle = SettleSlots /\ t.complete \subseteq t.judged)
      BY <1>1, <1>2, <2>1 DEF settle_step, Sessions
    <2> QED
      BY <1>2, <2>2 DEF Follows, Quietens
  <1>3. CASE t.phase # "WAIT_DESCRIPTOR"
    <2>1. /\ u.desc = t.desc /\ u.complete = t.complete /\ u.judged = t.judged /\ u.layout = t.layout
          /\ u.settle = t.settle /\ u.no_mouse = t.no_mouse
          /\ u.phase = t.phase \/ u.phase \in {"SEND_ENTRY", "SEND_COMMIT", "WAIT_COMMIT", "WAIT_REPORT"}
      BY <1>1, <1>3 DEF FillTx, Quiet, Emit, EmitCommand, sent_entry, commit_wait, Sessions
    <2> QED
      BY <1>3, <2>1 DEF Follows, Quietens
  <1> QED
    BY <1>2, <1>3

-----------------------------------------------------------------------------
\* What a retirement leaves the session with before it fills the frame: it has
\* been as quiet as it was, or a descriptor or the link has ended the quiet.
Leaves(msg, t) ==
  /\ t.settle \in Nat /\ Follows(t, set') /\ Quietens(t, ses')
  /\ t.phase = "WAIT_DESCRIPTOR" =>
       \/ t.settle = 0
       \/ /\ ses.phase = "WAIT_DESCRIPTOR" /\ t.settle = ses.settle /\ t.desc = ses.desc
          /\ msg.type # "DESCRIPTOR"
  /\ t.no_mouse \/ t.phase = "NO_MOUSE" =>
       t.desc = ses.desc /\ (ses.no_mouse \/ ses.phase = "NO_MOUSE")

\* link_drain_rx keeps session and set together.
LEMMA RetireFollows ==
  ASSUME IInv, AInv, SetFollows, NEW msg \in Messages \cup {None}, Retire(msg)
  PROVE  SetFollows' /\ \E t : Leaves(msg, t)
  <1> DEFINE up == SetLink(ses, TRUE)
             first == Consume(up, set, held)
             waiting == ConsumedBySet(set, held)
             second == Consume(first, waiting, msg)
             last == ConsumedBySet(waiting, msg)
             u == FillTx(second).session
  <1>1. SessionSound(ses) /\ SetSound(set) /\ ses \in Sessions /\ held \in Messages \cup {None}
    BY DEF IInv, McuTyped, SessionSound
  <1>2. /\ Follows(up, set) /\ up.desc = ses.desc /\ up.no_mouse = ses.no_mouse
        /\ up.phase = "NO_MOUSE" => ses.phase = "NO_MOUSE" \/ ses.no_mouse
        /\ ses.phase = "WAIT_LINK" => up.settle = 0
    BY <1>1, LinkFollows DEF SetFollows
  <1>3. SessionSound(up) /\ up.phase # "WAIT_LINK"
    BY <1>1, SetLinkSound DEF SetLink, Sessions, resting_phase
  <1>4. ses.phase # "WAIT_LINK" => up = ses /\ held.type # "DESCRIPTOR"
    BY DEF SetLink, AInv, Told, None
  <1> HIDE DEF up
  <1>5. /\ SessionSound(first) /\ first.phase # "WAIT_LINK"
        /\ Follows(first, waiting) /\ Minds(up, held, first)
    BY <1>1, <1>2, <1>3, ConsumeFollows
  <1>6. SetSound(waiting)
    BY <1>1, ConsumedBySetSound
  <1> HIDE DEF first, waiting
  <1>7. SessionSound(second) /\ Follows(second, last) /\ Minds(first, msg, second)
    BY <1>5, <1>6, ConsumeFollows
  <1> HIDE DEF second, last
  <1>8. Follows(u, last) /\ Quietens(second, u)
    BY <1>7, FillFollows
  <1>9. ses' = u /\ set' = last
    BY DEF Retire, up, first, waiting, second, last
  <1> HIDE DEF u
  <1>10. second.settle \in Nat
    BY <1>7 DEF SessionSound, Sessions
  <1>11. second.phase = "WAIT_DESCRIPTOR" =>
           \/ second.settle = 0
           \/ /\ ses.phase = "WAIT_DESCRIPTOR" /\ second.settle = ses.settle /\ second.desc = ses.desc
              /\ msg.type # "DESCRIPTOR"
    BY <1>2, <1>4, <1>5, <1>7 DEF Minds
  <1>12. second.no_mouse \/ second.phase = "NO_MOUSE" =>
           second.desc = ses.desc /\ (ses.no_mouse \/ ses.phase = "NO_MOUSE")
    BY <1>2, <1>5, <1>7 DEF Minds
  <1>13. Leaves(msg, second)
    BY <1>7, <1>8, <1>9, <1>10, <1>11, <1>12 DEF Leaves
  <1> QED
    BY <1>8, <1>9, <1>13 DEF SetFollows

\* Nothing of the device attached gets missing again, and what a descriptor
\* brings is not missing.
LEMMA RetireMissing ==
  ASSUME IInv, AInv, SetFollows, NEW msg \in {tx, None}, Retire(msg), generation' = generation
  PROVE  /\ Missing' \subseteq Missing
         /\ msg.type = "DESCRIPTOR" /\ msg.desc = generation => msg.arg \notin Missing'
  <1> DEFINE waiting == ConsumedBySet(set, held)
             last == ConsumedBySet(waiting, msg)
  <1>1. SetSound(set) /\ held \in Messages \cup {None} /\ msg \in Messages \cup {None}
    BY DEF IInv, McuTyped, PlaneTyped
  <1>2. SetSound(waiting)
    BY <1>1, ConsumedBySetSound
  <1>3. /\ held.type # "DESCRIPTOR" => waiting = set
        /\ held.type = "DESCRIPTOR" /\ held.desc = generation => Have(set) \subseteq Have(waiting)
    BY <1>1, ConsumedHave
  <1> HIDE DEF waiting
  <1>4. /\ msg.type # "DESCRIPTOR" => last = waiting
        /\ msg.type = "DESCRIPTOR" /\ msg.desc = generation =>
             Have(waiting) \subseteq Have(last) /\ msg.arg \in Have(last)
    BY <1>1, <1>2, ConsumedHave
  <1>5. \A m \in {held, msg} : ses.desc = generation /\ m.type = "DESCRIPTOR" => m.desc = generation
    BY DEF AInv, Heard, None
  <1>6. set.desc = ses.desc
    BY DEF SetFollows, Follows
  <1>7. Have(set) \subseteq Have(last)
    <2>1. CASE set.desc = generation
      BY <1>3, <1>4, <1>5, <1>6, <2>1
    <2>2. CASE set.desc # generation
      BY <2>2 DEF Have
    <2> QED
      BY <2>1, <2>2
  <1>8. set' = last
    BY DEF Retire, waiting
  <1> HIDE DEF last
  <1>9. Missing' = Interfaces(generation) \ Have(last)
    BY <1>8 DEF Missing, Have, Interfaces
  <1> QED
    BY <1>4, <1>7, <1>9 DEF Missing

-----------------------------------------------------------------------------
\* The terms of the sum are 0 or 1.
LEMMA BetweenNat ==
  /\ \A b \in BOOLEAN : One(b) \in 0..1
  /\ Between \in Nat /\ Between' \in Nat
  BY DEF One, Between

\* Before a slot, what is missing is being exported: the plane has settled.
LEMMA SlotComing ==
  ASSUME IInv, AInv, VInv, Slot, session, ~lost
  PROVE  /\ tx = None => Missing = {}
         /\ tx.type # "DESCRIPTOR" /\ Missing # {} => export.next # 0
         /\ store.state # "VALIDATE"
  <1>1. link = "up" /\ link_ready /\ ~invalidate
    BY DEF Slot, IInv, Forgotten, invalidate
  <1>2. /\ export_pending => export.next # 0
        /\ tx = None => export.next = 0
        /\ store.state # "VALIDATE"
    BY <1>1 DEF Slot, Settled
  <1>3. tx = None => tx.type # "DESCRIPTOR"
    BY DEF None
  <1> QED
    BY <1>1, <1>2, <1>3 DEF VInv, Coming

\* What a slot leaves alone.
LEMMA SlotKeeps ==
  ASSUME Slot
  PROVE  /\ link = "up" /\ tx' = None
         /\ UNCHANGED <<link, session, generation, staged, store, status, export, export_pending>>
         /\ lost => lost'
         /\ \/ /\ ~late /\ ~late' /\ Retire(tx)
               /\ rx' \in {rx, ring[1]} /\ (rx' # rx => rx.type # "MAP_COMMIT")
            \/ ~late /\ ~late' /\ Retire(None) /\ lost'
            \/ Rotate /\ (lost' \/ tx = None)
  <1>1. /\ link = "up" /\ tx' = None
        /\ UNCHANGED <<link, session, generation, staged, store, status, export, export_pending>>
    BY DEF Slot, deviceVars
  <1>2. CASE SlotOnTime(FALSE) /\ UNCHANGED lost /\ (Published(ring[1]) \/ UNCHANGED rx)
    <2>1. ~late /\ ~late' /\ Retire(tx)
      BY <1>2 DEF SlotOnTime, Received
    <2>2. rx' \in {rx, ring[1]} /\ (rx' # rx => rx.type # "MAP_COMMIT")
      BY <1>2 DEF Published, None
    <2> QED
      BY <1>1, <1>2, <2>1, <2>2
  <1>3. CASE SlotOnTime(TRUE) /\ tx # None /\ LosesMessage
    <2>1. ~late /\ ~late' /\ Retire(None)
      BY <1>3 DEF SlotOnTime, Received
    <2> QED
      BY <1>1, <1>3, <2>1 DEF LosesMessage
  <1>4. CASE (SlotLate \/ SlotStalled) /\ LosesMessage
    BY <1>1, <1>4 DEF SlotLate, SlotStalled, LosesMessage
  <1> QED
    BY <1>2, <1>3, <1>4 DEF Slot

\* While a descriptor is to come, a slot either brings it or something else, of
\* which there is then one less.
LEMMA Waits ==
  ASSUME IInv, AInv, VInv, Slot, AInv', Retire(tx), ~late, ~late', session, ~lost,
         rx' \in {rx, ring[1]}, rx' # rx => rx.type # "MAP_COMMIT",
         ses'.desc = generation, Missing' # {}, NEW t, Leaves(tx, t), t.phase = "WAIT_DESCRIPTOR"
  PROVE  ses'.settle + Between' <= 8
  <1>1. /\ tx' = None
        /\ UNCHANGED <<link, session, generation, staged, store, status, export, export_pending>>
        /\ store.state # "VALIDATE"
    BY SlotKeeps, SlotComing
  <1>2. Missing # {}
    BY <1>1, RetireMissing DEF VInv
  <1>3. Ra = ring[1] /\ Ra' = Rb /\ Rb' = Idle /\ ~IsCommit(Idle)
    <2>1. ses'.phase \in {"WAIT_DESCRIPTOR", "NO_MOUSE"}
      BY DEF Leaves, Quietens
    <2>2. Rb' = Idle
      BY <2>1 DEF AInv, BanksFollow, Idling
    <2>3. Ra = ring[1] /\ Ra' = Rb
      BY DEF Ra, Rb, Retire
    <2> QED
      BY <2>2, <2>3 DEF IsCommit, Idle, Frame
  <1>4. t.settle \in Nat /\ ses'.settle <= t.settle + 1 /\ ses'.settle \in Nat /\ t.desc = ses'.desc
    <2>1. SessionSound(ses')
      BY SlotMcu
    <2> QED
      BY <2>1 DEF Leaves, Quietens, SessionSound, Sessions
  <1>5. Between' <= 6
    BY <1>1 DEF Between, One
  <1>6. CASE t.settle = 0
    BY <1>4, <1>5, <1>6, BetweenNat
  <1>7. CASE t.settle # 0
    <2>1. /\ ses.phase = "WAIT_DESCRIPTOR" /\ t.settle = ses.settle /\ ses.desc = generation
          /\ tx.type # "DESCRIPTOR"
      BY <1>4, <1>7 DEF Leaves
    <2>2. ses.settle + Between <= 8
      BY <1>2, <2>1 DEF VInv, Patient, Listening
    <2>3. Other /\ ~Other'
      BY <1>1, <1>2, <2>1, SlotComing DEF Other
    <2>4. Between' + 1 <= Between
      <3>1. One(Other) = 1 /\ One(Other') = 0
        BY <2>3 DEF One
      <3> QED
        BY <1>1, <1>3, <3>1 DEF Between, Staging, IsCommit, One
    <2>5. t.settle + Between <= 8
      BY <2>1, <2>2
    <2>6. Between \in Nat /\ Between' \in Nat
      BY BetweenNat
    <2>7. \A b, c, v, u \in Nat : u <= v + 1 /\ c + 1 <= b /\ v + b <= 8 => u + c <= 8
      OBVIOUS
    <2> QED
      BY <1>4, <2>4, <2>5, <2>6, <2>7, Zenon
  <1> QED
    BY <1>6, <1>7

\* Without a layout, what is judged is nothing; so is the device when all of it
\* is known and judged.
LEMMA AllJudged ==
  ASSUME NEW s, NEW d, Follows(s, d), s.layout = NoLayout, s.complete \subseteq s.judged,
         s.desc = generation, Interfaces(generation) \subseteq Have(d)
  PROVE  NothingThere
  <1> SUFFICES ASSUME NEW i \in Interfaces(generation) PROVE Devices[generation][i] = "NONE"
    BY DEF NothingThere
  <1>1. PICK j \in DOMAIN d.slots : d.slots[j] = i
    BY DEF Follows, Have
  <1> QED
    BY <1>1 DEF Follows

\* A slot retired in time with nothing lost.
LEMMA RetiresV ==
  ASSUME IInv, AInv, VInv, Slot, AInv', Retire(tx), ~late, ~late', session, ~lost,
         rx' \in {rx, ring[1]}, rx' # rx => rx.type # "MAP_COMMIT", SettleSlots > 8
  PROVE  VInv'
  <1>1. /\ tx' = None /\ UNCHANGED <<link, session, generation, export, export_pending>>
    BY SlotKeeps
  <1>2. SetFollows' /\ \E t : Leaves(tx, t)
    BY RetireFollows DEF VInv, IInv, PlaneTyped
  <1>3. PICK t : Leaves(tx, t)
    BY <1>2
  <1>4. /\ Missing' \subseteq Missing
        /\ tx.type = "DESCRIPTOR" /\ tx.desc = generation => tx.arg \notin Missing'
    BY <1>1, RetireMissing DEF VInv
  <1>5. t.phase = "WAIT_DESCRIPTOR" /\ ses'.desc = generation /\ Missing' # {} =>
          ses'.settle + Between' <= 8
    BY <1>3, Waits
  <1>6. Coming'
    BY <1>1, <1>4 DEF VInv, Coming
  <1>7. Patient'
    BY <1>1, <1>3, <1>5 DEF Patient, Listening, Leaves, Quietens
  <1>8. Verdict'
    <2> SUFFICES ASSUME Listening', (ses.no_mouse \/ ses.phase = "NO_MOUSE")' PROVE NothingThere'
      BY DEF Verdict
    <2>1. ses'.desc = generation /\ (NothingThere' <=> NothingThere)
      BY <1>1 DEF Listening, NothingThere, Interfaces
    <2>2. t.desc = generation
      BY <1>3, <2>1 DEF Leaves, Quietens
    <2>3. CASE t.no_mouse \/ t.phase = "NO_MOUSE"
      <3>1. Listening /\ (ses.no_mouse \/ ses.phase = "NO_MOUSE")
        BY <1>3, <2>2, <2>3 DEF Listening, Leaves
      <3> QED
        BY <2>1, <3>1 DEF VInv, Verdict
    <2>4. CASE /\ t.phase = "WAIT_DESCRIPTOR" /\ ses'.settle = SettleSlots
               /\ t.complete \subseteq t.judged
      <3>1. Missing' = {}
        <4>1. Between' \in Nat /\ SettleSlots \in Nat
          BY BetweenNat, SessionAssumption
        <4>2. \A b, n \in Nat : n > 8 => ~(n + b <= 8)
          OBVIOUS
        <4> QED
          BY <1>5, <2>1, <2>4, <4>1, <4>2, Zenon
      <3>2. Interfaces(generation) \subseteq Have(set')
        BY <1>1, <3>1 DEF Missing, Have, Interfaces
      <3>3. Follows(t, set') /\ t.layout = NoLayout
        BY <1>3, <2>4 DEF Leaves, Follows
      <3> QED
        BY <2>1, <2>2, <2>4, <3>2, <3>3, AllJudged
    <2> QED
      BY <1>3, <2>3, <2>4 DEF Leaves, Quietens
  <1> QED
    BY <1>2, <1>6, <1>7, <1>8 DEF VInv

\* The invariant promises little of a device that is gone or not heard of, and
\* nothing once a message was lost.
LEMMA Moot ==
  ASSUME SetFollows', ~session' \/ lost' \/ (ses'.desc # generation' /\ Coming')
  PROVE  VInv'
  BY DEF VInv, Coming, Patient, Verdict, Listening

\* A slot keeps VInv.
LEMMA SlotV ==
  ASSUME IInv, AInv, VInv, Slot, AInv', SettleSlots > 8
  PROVE  VInv'
  <1>1. /\ tx' = None
        /\ UNCHANGED <<link, session, generation, export, export_pending, store, status, staged>>
        /\ lost => lost'
        /\ \/ /\ ~late /\ ~late' /\ Retire(tx)
              /\ rx' \in {rx, ring[1]} /\ (rx' # rx => rx.type # "MAP_COMMIT")
           \/ ~late /\ ~late' /\ Retire(None) /\ lost'
           \/ Rotate /\ (lost' \/ tx = None)
    BY SlotKeeps
  <1>2. SetFollows'
    <2>1. CASE Rotate
      BY <2>1 DEF Rotate, VInv, SetFollows, Follows
    <2>2. CASE Retire(tx) \/ Retire(None)
      BY <2>2, RetireFollows DEF VInv, IInv, PlaneTyped
    <2> QED
      BY <1>1, <2>1, <2>2
  <1>3. CASE ~session \/ lost'
    BY <1>1, <1>2, <1>3, Moot
  <1>4. CASE session /\ ~lost' /\ Rotate /\ tx = None
    <2>1. Missing = {} /\ ~lost
      BY <1>1, <1>4, SlotComing
    <2>2. Missing' = {}
      BY <1>1, <1>4, <2>1 DEF Rotate, Missing, Have, Interfaces
    <2>3. Coming' /\ Patient'
      BY <2>2 DEF Coming, Patient
    <2>4. Verdict'
      BY <1>1, <1>4, <2>1 DEF Rotate, VInv, Verdict, Listening, NothingThere, Interfaces
    <2> QED
      BY <1>2, <2>3, <2>4 DEF VInv
  <1>5. CASE /\ session /\ ~lost' /\ ~late /\ ~late' /\ Retire(tx) /\ rx' \in {rx, ring[1]}
             /\ (rx' # rx => rx.type # "MAP_COMMIT")
    BY <1>1, <1>5, RetiresV
  <1> QED
    BY <1>1, <1>3, <1>4, <1>5

-----------------------------------------------------------------------------
\* A step that nothing but the plane takes part in, and that brings no more in
\* between.
LEMMA PlaneV ==
  ASSUME IInv, VInv, UNCHANGED <<ses, set, lost, session, generation>>, Coming',
         session => Between' <= Between
  PROVE  VInv'
  <1>1. Missing' = Missing /\ (Listening' <=> Listening) /\ (NothingThere' <=> NothingThere)
    BY DEF Missing, Have, Interfaces, Listening, NothingThere
  <1>2. SetFollows' /\ Verdict'
    BY <1>1 DEF VInv, SetFollows, Follows, Verdict
  <1>3. Patient'
    <2> SUFFICES ASSUME Patient, Listening, ses.settle + Between <= 8, Between' <= Between
                 PROVE  ses.settle + Between' <= 8
      BY <1>1 DEF VInv, Patient, Listening
    <2>1. ses.settle \in Nat /\ Between \in Nat /\ Between' \in Nat
      BY BetweenNat DEF IInv, McuTyped, SessionSound, Sessions
    <2>2. \A b, c, s \in Nat : s + b <= 8 /\ c <= b => s + c <= 8
      OBVIOUS
    <2> QED
      BY <2>1, <2>2, Zenon
  <1> QED
    BY <1>2, <1>3 DEF VInv

\* The frames on the receive side only move on, or leave.
LEMMA ReceiveV ==
  ASSUME IInv, VInv, UNCHANGED <<mcuVars, lost>>,
         \/ Stage \/ Accept \/ CommandLeaves
  PROVE  VInv'
  <1>1. UNCHANGED <<ses, set, link, ring, late, session, generation, status, export, export_pending, tx>>
    BY DEF Stage, Accept, CommandLeaves, mcuVars, deviceVars, txVars
  <1>2. Coming'
    BY <1>1 DEF VInv, Coming, Missing, Have, Interfaces
  <1>3. Ra' = Ra /\ Rb' = Rb /\ (Other' <=> Other)
    BY <1>1 DEF Ra, Rb, Other
  <1>4. CASE Stage
    <2>1. /\ store' = store /\ rx' = None /\ ~Staging /\ (Staging' <=> IsCommit(rx)) /\ ~IsCommit(rx')
      BY <1>4 DEF Stage, rxVars, Staging, IsCommit, None
    <2>2. Between' <= Between
      BY <1>1, <1>3, <2>1 DEF Between, One
    <2> QED
      BY <1>1, <1>2, <2>2, PlaneV
  <1>5. CASE Accept \/ CommandLeaves
    <2>1. rx' = rx /\ ~Staging'
      BY <1>5 DEF Accept, CommandLeaves, FrameLeaves, Staging
    <2>2. store'.state = "VALIDATE" => store.state = "VALIDATE" \/ (store.state = "RECEIVE" /\ Staging)
      <3>1. CASE store' = store
        BY <3>1
      <3>2. CASE store' = MapMessage(staged.frame) /\ staged # None
        BY <3>2 DEF IInv, PlaneTyped, Stores, MapMessage, StoreBegin, StoreEntry, StoreCommit,
                    Staging, IsCommit
      <3> QED
        BY <1>5, <3>1, <3>2 DEF Accept, CommandLeaves
    <2>3. Between' <= Between
      BY <1>1, <1>3, <2>1, <2>2 DEF Between, One
    <2> QED
      BY <1>1, <1>2, <2>3, PlaneV
  <1> QED
    BY <1>4, <1>5

\* A MAP_COMMIT ends as a status.
LEMMA ValidateV ==
  ASSUME IInv, VInv, UNCHANGED <<mcuVars, lost>>, Validate
  PROVE  VInv'
  <1>1. /\ UNCHANGED <<ses, set, link, ring, late, session, generation>>
        /\ UNCHANGED <<export, export_pending, tx, rx, staged>>
        /\ store.state = "VALIDATE" /\ store'.state = "IDLE"
    BY DEF Validate, mcuVars, deviceVars, IInv, PlaneTyped, Stores, StoreEnd
  <1>2. Coming'
    BY <1>1 DEF VInv, Coming, Missing, Have, Interfaces
  <1>3. Ra' = Ra /\ Rb' = Rb /\ (Other' <=> Other) /\ (Staging' <=> Staging)
    BY <1>1 DEF Ra, Rb, Other, Staging
  <1>4. Between' <= Between
    BY <1>1, <1>3 DEF Between, One
  <1> QED
    BY <1>1, <1>2, <1>4, PlaneV

\* The queue takes the status, the next descriptor or the report: a descriptor
\* that has been taken is on its way.
LEMMA TransmitV ==
  ASSUME IInv, AInv, VInv, UNCHANGED <<mcuVars, lost>>,
         \/ ExportStart \/ Fill \/ \E i \in Interfaces(generation) : Report(i)
  PROVE  VInv'
  <1>1. UNCHANGED <<ses, set, link, ring, late, session, generation, store, rx, staged>>
    BY DEF ExportStart, Fill, Report, mcuVars, deviceVars, rxVars
  <1>2. Missing' = Missing
    BY <1>1 DEF Missing, Have, Interfaces
  <1>3. Ra' = Ra /\ Rb' = Rb /\ (Staging' <=> Staging)
    BY <1>1 DEF Ra, Rb, Staging
  <1>4. \A i \in Missing : i \in Nat /\ 1 <= i /\ i <= Len(Devices[generation])
    BY PlaneAssumption DEF Missing, Interfaces, IInv, PlaneTyped, Generations
  <1>5. None.type # "DESCRIPTOR"
    BY DEF None
  <1>6. CASE ExportStart
    <2>1. UNCHANGED <<status, tx>> /\ export.next = 0 /\ export'.next = 1
      BY <1>6 DEF ExportStart
    <2>2. Coming'
      BY <1>2, <1>4, <2>1 DEF Coming
    <2>3. Other' => Other
      BY <2>1 DEF Other
    <2>4. Between' <= Between
      BY <1>1, <1>3, <2>1, <2>3 DEF Between, One
    <2> QED
      BY <1>1, <2>2, <2>4, PlaneV
  <1>7. CASE \E i \in Interfaces(generation) : Report(i)
    <2>1. UNCHANGED <<status, tx, export, export_pending>>
      BY <1>7 DEF Report
    <2>2. Coming'
      BY <1>1, <1>2, <2>1 DEF VInv, Coming
    <2>3. Other' <=> Other
      BY <2>1 DEF Other
    <2>4. Between' <= Between
      BY <1>1, <1>3, <2>1, <2>3 DEF Between, One
    <2> QED
      BY <1>1, <2>2, <2>4, PlaneV
  <1>8. CASE Fill
    <2>1. tx = None /\ export_pending' = export_pending
      BY <1>8 DEF Fill
    <2>2. CASE FillStatus
      <3>1. status # None /\ status' = None /\ export' = export
        BY <2>2 DEF FillStatus
      <3>2. Coming'
        BY <1>1, <1>2, <1>5, <2>1, <3>1 DEF VInv, Coming
      <3>3. Between' <= Between
        BY <1>1, <1>3, <3>1 DEF Between, One
      <3> QED
        BY <1>1, <3>2, <3>3, PlaneV
    <2>3. CASE FillDescriptor
      <3>1. /\ status' = status /\ export.next # 0 /\ export.desc = generation
            /\ tx' = Message("DESCRIPTOR", generation, export.next)
            /\ export'.next = IF export.next = Len(Devices[generation]) THEN 0 ELSE export.next + 1
        BY <2>3 DEF FillDescriptor, AInv, Sources, IInv, PlaneTyped
      <3>2. tx'.type = "DESCRIPTOR" /\ tx'.desc = generation /\ tx'.arg = export.next /\ tx' # None
        BY <3>1 DEF Message, None
      <3>3. export.next \in Nat
        BY DEF IInv, PlaneTyped
      <3>4. Coming'
        BY <1>1, <1>2, <1>4, <1>5, <2>1, <3>1, <3>2, <3>3 DEF VInv, Coming
      <3>5. ~Other'
        BY <3>2 DEF Other
      <3>6. Between' <= Between
        BY <1>1, <1>3, <3>1, <3>5 DEF Between, One
      <3> QED
        BY <1>1, <3>4, <3>6, PlaneV
    <2>4. CASE FillReport
      <3>1. status' = status /\ export' = export /\ export.next = 0
        BY <2>4 DEF FillReport
      <3>2. Coming'
        BY <1>1, <1>2, <1>5, <2>1, <3>1 DEF VInv, Coming
      <3>3. Other
        BY <2>1, <3>1 DEF Other
      <3>4. Between' <= Between
        BY <1>1, <1>3, <3>1, <3>3 DEF Between, One
      <3> QED
        BY <1>1, <3>2, <3>4, PlaneV
    <2> QED
      BY <1>8, <2>2, <2>3, <2>4 DEF Fill
  <1> QED
    BY <1>6, <1>7, <1>8

-----------------------------------------------------------------------------
\* A step of the session alone that keeps it with the set: it may stop waiting.
LEMMA SessionV ==
  ASSUME IInv, VInv, UNCHANGED <<planeVars, link, ring, late, lost>>, SetFollows', Missing' = Missing,
         ses'.desc = ses.desc, ses'.settle = ses.settle, ses'.no_mouse = ses.no_mouse,
         ses'.phase \in {"WAIT_DESCRIPTOR", "NO_MOUSE"} => ses'.phase = ses.phase
  PROVE  VInv'
  <1>1. /\ (Listening' <=> Listening) /\ (NothingThere' <=> NothingThere)
        /\ Between' = Between
    BY DEF planeVars, Listening, NothingThere, Interfaces, Between, Other, Staging, IsCommit, Ra, Rb
  <1>2. Coming'
    BY DEF VInv, Coming, planeVars
  <1>3. Patient' /\ Verdict'
    BY <1>1 DEF VInv, Patient, Verdict
  <1> QED
    BY <1>2, <1>3 DEF VInv

\* sync_descriptors and offer_layout know only what the set has, and a layout is
\* adopted of the bytes it was compiled from.
LEMMA ForegroundV ==
  ASSUME IInv, VInv, Service \/ Offer \/ \E kind \in Kinds : Request(kind)
  PROVE  VInv'
  <1>1. ses \in Sessions /\ SessionSound(ses) /\ SetSound(set) /\ Follows(ses, set)
    BY DEF IInv, McuTyped, SessionSound, VInv, SetFollows
  <1>2. UNCHANGED <<planeVars, link, ring, late, lost>>
    BY DEF Service, Offer, Request, historyVars
  <1>3. CASE Service
    <2>1. set'.desc = set.desc /\ set'.slots = set.slots
      BY <1>1, <1>3 DEF Service, SetSound
    <2>2. Missing' = Missing
      BY <1>2, <2>1 DEF Missing, Have, Interfaces, planeVars
    <2>3. /\ ses'.desc = ses.desc /\ ses'.settle = ses.settle /\ ses'.no_mouse = ses.no_mouse
          /\ ses'.phase = ses.phase /\ ses'.layout = ses.layout
          /\ ses'.complete \in {ses.complete, DOMAIN set.slots} /\ ses'.judged \subseteq ses.judged
      BY <1>1, <1>3 DEF Service, Reconciled, SyncDescriptors, complete_mask, Sessions
    <2>4. SetFollows'
      BY <1>1, <2>1, <2>3 DEF SetFollows, Follows
    <2> QED
      BY <1>2, <2>2, <2>3, <2>4, SessionV
  <1>4. CASE Offer
    <2> DEFINE class == Devices[snap.desc][snap.interface]
               judged == [ses EXCEPT !.judged = @ \union {snap.slot}]
               adopted == [judged EXCEPT
                             !.layout = [class |-> class, interface |-> snap.interface],
                             !.phase = IF @ \in {"WAIT_DESCRIPTOR", "NO_MOUSE"}
                                       THEN "WAIT_REPORT" ELSE @]
    <2>1. set' = set
      BY <1>4 DEF Offer
    <2>2. Missing' = Missing
      BY <1>2, <2>1 DEF Missing, Have, Interfaces, planeVars
    <2>3. CASE ses' = ses
      BY <1>1, <1>2, <2>1, <2>2, <2>3, SessionV DEF SetFollows
    <2>4. CASE ses' # ses
      <3>1. snapshot_valid(set, snap) /\ ses.desc = snap.desc
        BY <1>1, <1>4, <2>4 DEF Offer, OfferLayout, snapshot_valid, Follows
      <3>2. /\ snap.slot \in DOMAIN set.slots /\ set.slots[snap.slot] = snap.interface
            /\ class = Devices[ses.desc][set.slots[snap.slot]]
        BY <3>1 DEF snapshot_valid, complete_mask
      <3>3. /\ judged.desc = ses.desc /\ judged.settle = ses.settle /\ judged.no_mouse = ses.no_mouse
            /\ judged.phase = ses.phase /\ judged.layout = ses.layout /\ judged.complete = ses.complete
            /\ judged.judged = ses.judged \union {snap.slot}
        BY <1>1 DEF Sessions
      <3>4. /\ adopted.desc = ses.desc /\ adopted.settle = ses.settle /\ adopted.no_mouse = ses.no_mouse
            /\ adopted.layout.class = class /\ adopted.complete = ses.complete
            /\ adopted.phase \notin {"WAIT_DESCRIPTOR", "NO_MOUSE"}
            /\ adopted.phase = "WAIT_LINK" => ses.phase = "WAIT_LINK"
        BY <1>1 DEF Sessions
      <3>5. \/ ses' = judged /\ (class = "NONE" \/ ses.layout # NoLayout)
            \/ ses' = adopted
        BY <1>4, <3>1 DEF Offer, OfferLayout
      <3>6. class # "UNKNOWN"
        <4>1. snap \in Snapshots
          BY <1>4 DEF Offer, IInv, McuTyped
        <4>2. Devices[snap.desc] \in Seq({"NONE", "MOUSE", "PAD"})
          BY <4>1, PlaneAssumption DEF Snapshots, Generations
        <4>3. snap.interface \in DOMAIN Devices[snap.desc]
          BY <4>1 DEF Snapshots, Interfaces
        <4> QED
          BY <4>2, <4>3
      <3> HIDE DEF judged, adopted, class
      <3>7. SetFollows'
        <4>1. CASE ses' = judged /\ (class = "NONE" \/ ses.layout # NoLayout)
          BY <1>1, <2>1, <3>2, <3>3, <4>1 DEF SetFollows, Follows
        <4>2. CASE ses' = adopted
          <5>1. ses'.layout # NoLayout
            BY <3>4, <3>6, <4>2 DEF NoLayout
          <5> QED
            BY <1>1, <2>1, <3>4, <4>2, <5>1 DEF SetFollows, Follows
        <4> QED
          BY <3>5, <4>1, <4>2
      <3> QED
        BY <1>2, <2>2, <3>3, <3>4, <3>5, <3>7, SessionV
    <2> QED
      BY <2>3, <2>4
  <1>5. CASE \E kind \in Kinds : Request(kind)
    <2>1. set' = set /\ \E r : ses' = [ses EXCEPT !.req = r]
      BY <1>5 DEF Request
    <2>2. Missing' = Missing
      BY <1>2, <2>1 DEF Missing, Have, Interfaces, planeVars
    <2>3. /\ ses'.desc = ses.desc /\ ses'.settle = ses.settle /\ ses'.no_mouse = ses.no_mouse
          /\ ses'.phase = ses.phase /\ ses'.layout = ses.layout /\ ses'.complete = ses.complete
          /\ ses'.judged = ses.judged
      BY <1>1, <2>1 DEF Sessions
    <2>4. SetFollows'
      BY <1>1, <2>1, <2>3 DEF SetFollows, Follows
    <2> QED
      BY <1>2, <2>2, <2>3, <2>4, SessionV
  <1> QED
    BY <1>3, <1>4, <1>5

\* The session is told that the link is lost.
LEMMA DownV ==
  ASSUME IInv, VInv, ses' = SetLink(ses, FALSE), UNCHANGED <<set, lost, session, generation>>,
         link' # "up"
  PROVE  VInv'
  <1>1. ses \in Sessions
    BY DEF IInv, McuTyped, SessionSound
  <1>2. /\ Follows(ses', set) /\ ses'.desc = ses.desc /\ ses'.no_mouse = ses.no_mouse
        /\ ses'.phase = "WAIT_LINK"
    <2>1. SetLink(ses, FALSE).phase = "WAIT_LINK"
      BY <1>1 DEF SetLink, Sessions
    <2> QED
      BY <1>1, <2>1, LinkFollows DEF VInv, SetFollows
  <1>3. SetFollows' /\ Coming' /\ Patient'
    BY <1>2 DEF SetFollows, Follows, Coming, Patient
  <1>4. Verdict'
    BY <1>2 DEF VInv, Verdict, Listening, NothingThere, Interfaces
  <1> QED
    BY <1>3, <1>4 DEF VInv

\* The recovery ladder: the receive side forgets, and the link that comes up
\* again has everything exported.
LEMMA LadderV ==
  ASSUME IInv, AInv, VInv, ReadyLow \/ SlotLow \/ RequestsOff \/ ReadyHigh \/ Reset
  PROVE  VInv'
  <1>1. CASE ReadyLow
    <2>1. /\ link' = "low" /\ Invalidated
          /\ UNCHANGED <<ring, late, set, session, generation, status, export>>
      BY <1>1 DEF ReadyLow, LinkFalls, deviceVars
    <2>2. CASE tx' = tx /\ UNCHANGED <<ses, held, lost>>
      <3>1. Ra' = Ra /\ Rb' = Rb /\ (Other' <=> Other)
        BY <2>1, <2>2 DEF Ra, Rb, Other
      <3>2. ~Staging' /\ ~IsCommit(rx') /\ (store'.state = "VALIDATE" => store.state = "VALIDATE")
        BY <2>1, InvalidatedA DEF Invalidated, Staging, IsCommit, None
      <3>3. Between' <= Between
        BY <2>1, <3>1, <3>2 DEF Between, One
      <3> QED
        BY <2>1, <2>2, <3>3, PlaneV DEF Coming
    <2>3. CASE lost' /\ UNCHANGED ses
      BY <2>1, <2>3, Moot DEF VInv, SetFollows, Follows
    <2>4. CASE ses' = SetLink(ses, FALSE) /\ UNCHANGED lost
      BY <2>1, <2>4, DownV
    <2> QED
      BY <1>1, <2>2, <2>3, <2>4 DEF ReadyLow
  <1>2. CASE SlotLow
    BY <1>2, DownV DEF SlotLow, planeVars
  <1>3. CASE RequestsOff
    <2>1. /\ UNCHANGED <<ses, set, lost, session, generation, status, export, tx, rx, staged, store>>
          /\ link' = "off" /\ ring' = IdleRing
      BY <1>3 DEF RequestsOff, planeVars, historyVars
    <2>2. ~IsCommit(Ra') /\ ~IsCommit(Rb')
      BY <2>1 DEF Ra, Rb, IdleRing, IsCommit, Idle, Frame
    <2>3. (Other' <=> Other) /\ (Staging' <=> Staging)
      BY <2>1 DEF Other, Staging
    <2>4. Between' <= Between
      BY <2>1, <2>2, <2>3 DEF Between, One
    <2> QED
      BY <2>1, <2>4, PlaneV DEF Coming
  <1>4. CASE ReadyHigh
    <2>1. /\ UNCHANGED <<ses, set, lost, session, generation, status, export, tx>>
          /\ UNCHANGED <<rx, staged, store, ring, late>>
          /\ session => export_pending'
      BY <1>4 DEF ReadyHigh, LinkRises, Triggered, historyVars, deviceVars, rxVars
    <2>2. (Other' <=> Other) /\ (Staging' <=> Staging) /\ Ra' = Ra /\ Rb' = Rb
      BY <2>1 DEF Other, Staging, Ra, Rb
    <2>3. Between' <= Between
      BY <2>1, <2>2 DEF Between, One
    <2>4. Coming'
      BY <2>1 DEF Coming
    <2> QED
      BY <2>1, <2>3, <2>4, PlaneV
  <1>5. CASE Reset
    <2>1. /\ ses' = SessionInit(ses.boot + 1) /\ set' = EmptySet /\ link' = "off"
          /\ generation' = generation
      BY <1>5 DEF Reset, LinkFalls, deviceVars
    <2>2. ses'.desc = 0 /\ SetFollows'
      BY <2>1 DEF SetFollows, Follows, SessionInit, EmptySet
    <2>3. ses'.desc # generation' /\ Coming'
      BY <2>1, <2>2, DeviceNumbers DEF Coming
    <2> QED
      BY <2>2, <2>3, Moot
  <1> QED
    BY <1>1, <1>2, <1>3, <1>4, <1>5

\* A device that goes takes all promises with it; one that comes is exported,
\* and the session has not heard of it.
LEMMA DeviceV ==
  ASSUME IInv, AInv, VInv, Device
  PROVE  VInv'
  <1>1. UNCHANGED <<ses, set, link>>
    BY DEF Device, mcuVars, McuUnchanged
  <1>2. SetFollows'
    BY <1>1 DEF VInv, SetFollows, Follows
  <1>3. CASE PollFailure \/ Detach
    BY <1>2, <1>3, Moot DEF PollFailure, Detach
  <1>4. CASE Enumerated
    <2>1. ses'.desc # generation'
      BY <1>1, <1>4 DEF Enumerated, AInv, Heard
    <2>2. Coming'
      BY <1>1, <1>4 DEF Enumerated, Triggered, Coming, IInv, Forgotten
    <2> QED
      BY <1>2, <2>1, <2>2, Moot
  <1> QED
    BY <1>3, <1>4 DEF Device

-----------------------------------------------------------------------------
\* The link starts in VInv.
THEOREM InitVInv == Init => VInv
  <1> SUFFICES ASSUME Init PROVE VInv
    OBVIOUS
  <1>1. ses = SessionInit(0) /\ set = EmptySet /\ ~session
    BY DEF Init, PlaneInit
  <1>2. SetFollows
    BY <1>1 DEF SetFollows, Follows, SessionInit, EmptySet
  <1> QED
    BY <1>1, <1>2 DEF VInv, Coming, Patient, Verdict, Listening

\* Every step keeps VInv, if a session waits longer than what may come between
\* two descriptors.
THEOREM NextVInv ==
  ASSUME SettleSlots > 8
  PROVE  IInv /\ AInv /\ VInv /\ [Next]_vars => VInv'
  <1> SUFFICES ASSUME IInv, AInv, VInv, [Next]_vars PROVE VInv'
    OBVIOUS
  <1>1. CASE Slot
    BY <1>1, SlotA, SlotV
  <1>2. CASE (PlaneWork \/ CommandLeaves \/ \E i \in Interfaces(generation) : Report(i)) /\ McuUnchanged
    BY <1>2, ReceiveV, ValidateV, TransmitV DEF PlaneWork, McuUnchanged, historyVars
  <1>3. CASE EngineCommits
    BY <1>3, ReceiveV DEF EngineCommits
  <1>4. CASE Device
    BY <1>4, DeviceV
  <1>5. CASE Service \/ Offer \/ \E kind \in Kinds : Request(kind)
    BY <1>5, ForegroundV
  <1>6. CASE ReadyLow \/ SlotLow \/ RequestsOff \/ ReadyHigh \/ Reset
    BY <1>6, LadderV
  <1>7. CASE UNCHANGED vars
    <2>1. UNCHANGED <<planeVars, ses, set, link, ring, late, lost>>
      BY <1>7 DEF vars, mcuVars, historyVars
    <2>2. SetFollows' /\ Missing' = Missing
      BY <2>1 DEF VInv, SetFollows, Follows, Missing, Have, Interfaces, planeVars
    <2> QED
      BY <2>1, <2>2, SessionV
  <1> QED
    BY <1>1, <1>2, <1>3, <1>4, <1>5, <1>6, <1>7 DEF Next

\* NO_MOUSE is the verdict on a device only if it has no interface that can be
\* injected into (inj_session.c settle_step), whatever else is late, repeated or
\* restarted, as long as the device stays and no message of the FPGA is lost: for
\* any devices, if more than eight quiet slots are waited for (512 are).
THEOREM VerdictRight ==
  ASSUME SettleSlots > 8
  PROVE  Spec => []NoMouseSound
  <1>1. Init => IInv /\ AInv /\ VInv
    BY InitIInv, InitAInv, InitVInv
  <1>2. IInv /\ AInv /\ VInv /\ [Next]_vars => IInv' /\ AInv' /\ VInv'
    BY NextIInv, NextAInv, NextVInv
  <1>3. IInv /\ AInv /\ VInv => NoMouseSound
    BY DEF VInv, Verdict, Listening, NothingThere, NoMouseSound
  <1> QED
    BY <1>1, <1>2, <1>3, PTL DEF Spec
=============================================================================
