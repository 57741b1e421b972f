----------------------------- MODULE InjSession -----------------------------
(***************************************************************************)
(* The MCU's injection session (inj_session.c): it learns the device's     *)
(* layout, proposes a map of it to the FPGA, waits for the verdict and     *)
(* then turns requests into commands.  Every function of the file is an    *)
(* operator on the session record; the modules that use it say which       *)
(* context (the retirement interrupt, the foreground) calls which.         *)
(*                                                                         *)
(* Kept: phases, generations, the sequence number of frames, the slot of   *)
(* one request, the settle and commit timers.  Abstracted: a layout is the *)
(* class of its interface, a map is EntryCount numbered entries, a request *)
(* is its kind and number.  Left out: the demo drift (silent by default),  *)
(* the pad's release timer, report lengths that contradict the layout.     *)
(***************************************************************************)
EXTENDS InjectionWire

CONSTANTS
  CommitTimeout,  \* slots a verdict is waited for (4096 in the code)
  SettleSlots,    \* quiet slots before the NO_MOUSE verdict (512)
  EntryCount      \* entries of a map

ASSUME SessionAssumption == {CommitTimeout, SettleSlots, EntryCount} \subseteq Nat \ {0}

Phases == {"WAIT_LINK", "WAIT_DESCRIPTOR", "NO_MOUSE", "WAIT_REPORT", "SEND_BEGIN",
           "SEND_ENTRY", "SEND_COMMIT", "WAIT_COMMIT", "INJECTING"}

NoLayout  == [class |-> "UNKNOWN", interface |-> 0]
NoRequest == [kind |-> "NONE", id |-> 0]

\* inj_session_init.  Generation 0 is have_generation false.
SessionInit(boot) ==
  [phase |-> "WAIT_LINK", seq |-> 0, desc |-> 0, layout |-> NoLayout, complete |-> {},
   judged |-> {}, settle |-> 0, no_mouse |-> FALSE, map |-> 0, cursor |-> 0, wait |-> 0,
   active |-> 0, req |-> NoRequest, boot |-> boot]

\* next_frame_seq: never 0, which is IDLE's.
NextFrameSeq(s) == IF s.seq + 1 = SeqModulus THEN 1 ELSE s.seq + 1

\* A new upload's generation, never 0.
NextMapGeneration(s) == IF s.map + 1 = MapModulus THEN 1 ELSE s.map + 1

resting_phase(s) ==
  IF s.layout # NoLayout THEN "WAIT_REPORT"
  ELSE IF s.no_mouse THEN "NO_MOUSE" ELSE "WAIT_DESCRIPTOR"

\* Mutant: the sequence and the request are dropped, the phase is not.
SetLinkKeepsPhase(s, up) ==
  IF ~up THEN [s EXCEPT !.seq = 0, !.cursor = 0, !.settle = 0, !.wait = 0, !.req = NoRequest]
  ELSE IF s.phase = "WAIT_LINK" THEN [s EXCEPT !.phase = resting_phase(s)] ELSE s

\* inj_session_set_link.
SetLink(s, up) ==
  IF ~up
  THEN [s EXCEPT !.phase = "WAIT_LINK", !.seq = 0, !.cursor = 0, !.settle = 0, !.wait = 0,
                 !.active = 0, !.req = NoRequest]
  ELSE IF s.phase = "WAIT_LINK" THEN [s EXCEPT !.phase = resting_phase(s)] ELSE s

forget_device(s, generation) ==
  [s EXCEPT !.desc = generation, !.layout = NoLayout, !.complete = {}, !.judged = {},
            !.settle = 0, !.wait = 0, !.no_mouse = FALSE, !.active = 0, !.req = NoRequest,
            !.phase = IF @ = "WAIT_LINK" THEN @ ELSE "WAIT_DESCRIPTOR"]

adopt_generation(s, generation) ==
  IF generation # s.desc THEN forget_device(s, generation) ELSE s

\* inj_session_observe_descriptor; slot is the descriptor set's, complete_edge
\* that this fragment completed it.
ObserveDescriptor(s, generation, slot, complete_edge) ==
  LET known == adopt_generation(s, generation)
      edge  == IF complete_edge THEN {slot} ELSE {}
  IN  IF s.phase = "WAIT_LINK" THEN s
      ELSE [known EXCEPT !.settle = 0, !.complete = @ \union edge]

\* inj_session_sync_descriptors.
SyncDescriptors(s, generation, complete_now) ==
  IF s.desc # generation THEN s
  ELSE [s EXCEPT !.complete = complete_now, !.judged = @ \intersect complete_now]

\* inj_session_offer_layout; class "NONE" is a verdict without a layout.
OfferLayout(s, generation, slot, interface, class) ==
  LET judged  == [s EXCEPT !.judged = @ \union {slot}]
      adopted == [judged EXCEPT
                    !.layout = [class |-> class, interface |-> interface],
                    !.phase = IF @ \in {"WAIT_DESCRIPTOR", "NO_MOUSE"}
                              THEN "WAIT_REPORT" ELSE @]
  IN  IF s.desc # generation THEN s
      ELSE IF class = "NONE" \/ s.layout # NoLayout THEN judged ELSE adopted

begin_upload(s) ==
  [s EXCEPT !.map = NextMapGeneration(s), !.cursor = 0, !.phase = "SEND_BEGIN"]

\* inj_session_observe_report.
ObserveReport(s, generation, interface) ==
  IF /\ s.phase = "WAIT_REPORT"
     /\ s.desc = generation
     /\ s.layout.interface = interface
  THEN begin_upload(s) ELSE s

\* inj_session_observe_map_status.
ObserveMapStatus(s, accepted, active_map_generation) ==
  IF s.phase # "WAIT_COMMIT" THEN s
  ELSE IF ~accepted THEN [s EXCEPT !.phase = "WAIT_REPORT"]
  ELSE IF active_map_generation # s.map THEN s
  ELSE [s EXCEPT !.active = active_map_generation, !.phase = "INJECTING"]

\* inj_session_request_*: FALSE is a refusal, which changes nothing.
RequestAccepted(s, kind) ==
  /\ s.phase = "INJECTING"
  /\ s.req = NoRequest
  /\ kind = "RELATIVE" => s.layout.class = "MOUSE"
  /\ kind = "ABSOLUTE" => s.layout.class = "PAD"

\* Mutant: descriptors not judged yet are not waited for.
settle_step_unjudged(s) ==
  LET settle == IF s.settle < SettleSlots THEN s.settle + 1 ELSE s.settle
      quiet  == settle = SettleSlots /\ s.complete # {}
  IN  [s EXCEPT !.settle = settle, !.no_mouse = @ \/ quiet,
                !.phase = IF quiet THEN "NO_MOUSE" ELSE @]

\* settle_step: every completed descriptor has been judged.
settle_step(s) ==
  LET settle == IF s.settle < SettleSlots THEN s.settle + 1 ELSE s.settle
      quiet  == /\ settle = SettleSlots
                /\ s.complete # {}
                /\ s.complete \subseteq s.judged
  IN  [s EXCEPT !.settle = settle, !.no_mouse = @ \/ quiet,
                !.phase = IF quiet THEN "NO_MOUSE" ELSE @]

\* Mutant: a verdict is waited for as long as it takes.
commit_wait_forever(s) == s

\* WAIT_COMMIT of fill_tx.
commit_wait(s) ==
  [s EXCEPT !.wait = @ + 1,
            !.phase = IF s.wait + 1 >= CommitTimeout THEN "WAIT_REPORT" ELSE @]

sent_entry(s) ==
  [s EXCEPT !.cursor = @ + 1,
            !.phase = IF s.cursor + 1 >= EntryCount THEN "SEND_COMMIT" ELSE @]

\* A frame goes out: the session after it, and the frame with its number.
Emit(s, type, arg) ==
  [session |-> [s EXCEPT !.seq = NextFrameSeq(s)], 
   frame |-> Frame(type, NextFrameSeq(s), s.desc, s.map, arg, s.boot)]
Quiet(s) == [session |-> s, frame |-> Idle]

\* A command cites the active generation (command_header).
EmitCommand(s) ==
  LET out == Emit([s EXCEPT !.req = NoRequest], s.req.kind, s.req.id)
  IN  [out EXCEPT !.frame.map = s.active]

\* inj_session_fill_tx.
FillTx(s) ==
  CASE s.phase = "WAIT_DESCRIPTOR" -> Quiet(settle_step(s))
    [] s.phase = "SEND_BEGIN" ->
         Emit([s EXCEPT !.cursor = 0, !.phase = "SEND_ENTRY"], "MAP_BEGIN", EntryCount)
    [] s.phase = "SEND_ENTRY" -> Emit(sent_entry(s), "MAP_ENTRY", s.cursor)
    [] s.phase = "SEND_COMMIT" ->
         Emit([s EXCEPT !.wait = 0, !.phase = "WAIT_COMMIT"], "MAP_COMMIT", EntryCount)
    [] s.phase = "WAIT_COMMIT" -> Quiet(commit_wait(s))
    [] s.phase = "INJECTING" /\ s.req # NoRequest -> EmitCommand(s)
    [] OTHER -> Quiet(s)
=============================================================================
