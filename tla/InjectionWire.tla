--------------------------- MODULE InjectionWire ---------------------------
(***************************************************************************)
(* What the FPGA and the MCU say to each other (injection_wire, generated  *)
(* from protocol/*.json for both): the fields of a frame that either end   *)
(* looks at.  boot is not on the wire: it tells the runs of the firmware   *)
(* apart, whose map generations all start from 1.                          *)
(***************************************************************************)
EXTENDS Naturals

CONSTANTS
  SeqModulus,  \* frame sequence numbers (256)
  MapModulus   \* map generations (65536)

ASSUME WireAssumption == SeqModulus \in Nat \ 0..3 /\ MapModulus \in Nat \ 0..1

Commands == {"RELATIVE", "ABSOLUTE", "BUTTON_STATE"}

\* A frame of the MCU.  arg is the number of an entry or of a command, or the
\* count of a map's entries.
Frame(type, seq, desc, map, arg, boot) ==
  [type |-> type, seq |-> seq, desc |-> desc, map |-> map, arg |-> arg, boot |-> boot]
Idle == Frame("IDLE", 0, 0, 0, 0, 0)

\* A message of the FPGA.  arg is an interface, or the active map generation.
Message(type, desc, arg) == [type |-> type, desc |-> desc, arg |-> arg]
None == [type |-> "NONE"]
=============================================================================
